---- MODULE Spec2Model ----
(***************************************************************************)
(* Model of the WishInsured back end: the request handlers of              *)
(* simple_server.py and api_server.py and the operations of                *)
(* GlobalFinanceEngine and HealthCopilot they are built on.                *)
(*                                                                         *)
(* A server is idle, serves one call (one action per handler or engine     *)
(* operation, the whole handler in one step) and delivers the outcome.     *)
(*                                                                         *)
(* Numbers.  Python floats are modelled in fixed point:                    *)
(*   - inputs of money are whole currency units, results are cents         *)
(*     (round(x, 2));                                                      *)
(*   - an annual return is held in per-mille (0.07 -> 70);                 *)
(*   - a growth factor (1 + r)^n is held at Scale (1.0 -> Scale), each     *)
(*     compounding step rounded to the nearest unit.                       *)
(* A Python exception is an outcome of its own ("raised"), never a value.  *)
(***************************************************************************)
EXTENDS Integers, Sequences, FiniteSets, TLC

VARIABLES
    request,    \* the call being served: [op |-> ..., <its arguments>]
    response,   \* its outcome: an HTTP response or an engine result
    tables,     \* the static tables of simple_server and of the engine
    failed,     \* whether a call served so far ended in an error
    inflight    \* the projection requests being served concurrently

vars == <<request, response, tables, failed, inflight>>

-----------------------------------------------------------------------------
(* Bounds of the model *)

\* largest monthly contribution (whole currency units) a caller sends
MaxMonthly == 100
\* how far beyond the accepted range 1..50 the years of a request go
YearsOver == 1

-----------------------------------------------------------------------------
(* Fixed-point arithmetic standing for Python's float arithmetic *)

\* 1.0 of a growth factor; a multiple of 12000 so that annual/12 is exact
Scale == 120000

Max2(a, b) == IF a >= b THEN a ELSE b
Min2(a, b) == IF a <= b THEN a ELSE b

\* floor(a * b / c) without forming a * b (b >= 0, c > 0)
MulDivFloor(a, b, c) == ((a \div c) * b) + (((a % c) * b) \div c)

\* round(a * b / c) to the nearest integer, halves up (a, b >= 0, c > 0)
MulDivRound(a, b, c) == ((a \div c) * b) + ((((a % c) * b) + (c \div 2)) \div c)

\* round(a / c) to the nearest integer, halves away from zero (c > 0)
RoundDiv(a, c) ==
    LET n == IF a >= 0 THEN a ELSE -a
        q == (n \div c) + (IF 2 * (n % c) >= c THEN 1 ELSE 0)
    IN IF a >= 0 THEN q ELSE -q

\* int(a / c) of Python: truncation towards zero (c > 0)
TruncDiv(a, c) == IF a >= 0 THEN a \div c ELSE -((-a) \div c)


-----------------------------------------------------------------------------
(* simple_server.py: the static tables *)

SupportedCountries == {"US", "IN", "UK", "CA", "AU", "DE"}
RiskLevels == {"conservative", "moderate", "aggressive"}

\* the COUNTRIES literal: interest rates in per-mille (7.0 % -> 70), typical
\* savings rate in tenths of a percent (13.0 % -> 130)
CountriesLiteral ==
    (  "US" :> [currency |-> "USD", economic_stability |-> "high",
              investment |-> 70, conservative |-> 40,
              typical_savings_rate |-> 130, retirement_age |-> 67,
              social_security |-> TRUE]
    @@ "IN" :> [currency |-> "INR", economic_stability |-> "moderate_high",
              investment |-> 120, conservative |-> 70,
              typical_savings_rate |-> 300, retirement_age |-> 60,
              social_security |-> FALSE]
    @@ "UK" :> [currency |-> "GBP", economic_stability |-> "high",
              investment |-> 65, conservative |-> 35,
              typical_savings_rate |-> 85, retirement_age |-> 66,
              social_security |-> TRUE]
    @@ "CA" :> [currency |-> "CAD", economic_stability |-> "high",
              investment |-> 68, conservative |-> 38,
              typical_savings_rate |-> 110, retirement_age |-> 65,
              social_security |-> TRUE]
    @@ "AU" :> [currency |-> "AUD", economic_stability |-> "high",
              investment |-> 72, conservative |-> 40,
              typical_savings_rate |-> 95, retirement_age |-> 67,
              social_security |-> TRUE]
    @@ "DE" :> [currency |-> "EUR", economic_stability |-> "high",
              investment |-> 55, conservative |-> 25,
              typical_savings_rate |-> 170, retirement_age |-> 67,
              social_security |-> TRUE] )

\* the module-level name COUNTRIES: what it is bound to now
COUNTRIES == tables.COUNTRIES

\* the EXCHANGE_RATES literal, in hundredths (0.79 -> 79)
ExchangeRatesLiteral ==
    (  "USD" :> 100 @@ "INR" :> 8300 @@ "GBP" :> 79
    @@ "CAD" :> 135 @@ "AUD" :> 152 @@ "EUR" :> 92 )

\* the module-level name EXCHANGE_RATES
EXCHANGE_RATES == tables.EXCHANGE_RATES

\* risk premium of the aggressive tier: (investment + 3) / 100
AggressivePremium == 30

\* the tiers with the conservative and the investment rate exchanged
get_country_investment_returns_swapped(country) ==
    LET country_data == IF country \in DOMAIN COUNTRIES
                        THEN COUNTRIES[country] ELSE COUNTRIES["US"]
    IN [ conservative |-> country_data.investment,
         moderate     |-> country_data.conservative,
         aggressive   |-> country_data.investment + AggressivePremium ]

get_country_investment_returns(country) ==
    LET country_data == IF country \in DOMAIN COUNTRIES
                        THEN COUNTRIES[country] ELSE COUNTRIES["US"]
    IN [ conservative |-> country_data.conservative,
         moderate     |-> country_data.investment,
         aggressive   |-> country_data.investment + AggressivePremium ]

-----------------------------------------------------------------------------
(* global_finance_engine.py: the static tables *)

\* years of SavingsRequest: Field(..., ge=1, le=50)
MinYears == 1
MaxYears == 50

\* _load_investment_data, in per-mille
load_investment_data ==
    (  "US" :> [conservative |-> 40, moderate |-> 70,  aggressive |-> 100]
    @@ "IN" :> [conservative |-> 60, moderate |-> 120, aggressive |-> 150]
    @@ "UK" :> [conservative |-> 30, moderate |-> 60,  aggressive |-> 80]
    @@ "CA" :> [conservative |-> 35, moderate |-> 65,  aggressive |-> 90]
    @@ "AU" :> [conservative |-> 40, moderate |-> 70,  aggressive |-> 95]
    @@ "DE" :> [conservative |-> 25, moderate |-> 50,  aggressive |-> 75] )

\* self.investment_returns
investment_returns == tables.investment_returns

-----------------------------------------------------------------------------
(* (1 + annual_return / 12) ** months *)

\* every annual return (per-mille) a table holds
ReturnRates ==
    UNION { { CountriesLiteral[c].conservative, CountriesLiteral[c].investment,
              CountriesLiteral[c].investment + AggressivePremium }
            \cup { load_investment_data[c][r] : r \in RiskLevels }
          : c \in SupportedCountries }

\* g * f / Scale for a growth factor g and a factor f of one year or less
\* (Scale <= f < 2 * Scale), rounded, without forming g * f
MulFactor(g, f) ==
    LET delta == f - Scale
        half == delta \div 2
    IN g + MulDivRound(g, half, Scale) + MulDivRound(g, delta - half, Scale)

\* one month of growth: g * (1 + annual_return / 12)
MonthStep(g, annual_return) == g + MulDivRound(g, annual_return, 12000)

\* (1 + annual_return / 12) ** m for m in 0..12, at Scale
RECURSIVE MonthsGrowth(_, _)
MonthsGrowth(annual_return, m) ==
    IF m = 0 THEN Scale
    ELSE MonthStep(MonthsGrowth(annual_return, m - 1), annual_return)

MonthTable == [ar \in ReturnRates |-> [m \in 0..12 |-> MonthsGrowth(ar, m)]]

\* <<(1 + r/12)^0, (1 + r/12)^12, ..., (1 + r/12)^(12 * years)>> at Scale
RECURSIVE YearsGrowth(_, _)
YearsGrowth(annual_return, years) ==
    IF years = 0 THEN <<Scale>>
    ELSE LET s == YearsGrowth(annual_return, years - 1)
         IN Append(s, MulFactor(s[years], MonthTable[annual_return][12]))

YearTable == [ar \in ReturnRates |-> YearsGrowth(ar, MaxYears + YearsOver)]

MaxMonths == 12 * (MaxYears + YearsOver)

\* (1 + annual_return / 12) ** months, at Scale (0 <= months <= MaxMonths)
Growth(annual_return, months) ==
    MulFactor(YearTable[annual_return][(months \div 12) + 1],
              MonthTable[annual_return][months % 12])

\* the annuity factor compounded once a year instead of once a month
AnnuityFactorYearly(annual_return, months) ==
    MulDivFloor(Growth(annual_return, months \div 12) - Scale,
                (12000 * 100) \div Scale, annual_return)

\* ((1 + monthly_return) ** months - 1) / monthly_return, in hundredths
AnnuityFactor(annual_return, months) ==
    MulDivFloor(Growth(annual_return, months) - Scale, (12000 * 100) \div Scale,
                annual_return)

-----------------------------------------------------------------------------
(* Outcomes *)

Idle == [op |-> "idle"]
NoResult == [kind |-> "none"]
NoResponse == [outcome |-> "none", status |-> 0, detail |-> <<>>, result |-> NoResult]

\* an HTTP response: FastAPI sends {"detail": detail} for an HTTPException
HttpResponse(status, detail, result) ==
    [outcome |-> IF status = 200 THEN "ok" ELSE "error",
     status |-> status, detail |-> detail, result |-> result]

\* the outcome of a direct call of an engine operation
Returned(result) ==
    [outcome |-> "returned", status |-> 0, detail |-> <<>>, result |-> result]
Raised(exc) ==
    [outcome |-> "raised", status |-> 0, detail |-> <<exc>>, result |-> NoResult]

\* outcome of a block of code: a value, or the exception that left it
Value(v) == [raised |-> FALSE, exc |-> "", value |-> v]
Raise(exc) == [raised |-> TRUE, exc |-> exc, value |-> NoResult]

\* exceptions the environment can raise inside a handler (out of memory,
\* a failing logger, ...): NoFault, or the text of the exception
NoFault == ""
ExcMessages == {"MemoryError: out of memory", "OSError: disk full"}
Faults == {NoFault} \cup ExcMessages

-----------------------------------------------------------------------------
(* simple_server.py: POST /calculate-savings-projection *)

\* SavingsRequest with monthly_amount declared without gt=0
SavingsRequestAnyAmount(req) ==
    /\ req.years >= MinYears /\ req.years <= MaxYears
    /\ req.country \in SupportedCountries
    /\ req.risk_level \in RiskLevels

\* class SavingsRequest: the Field constraints pydantic enforces (HTTP 422)
SavingsRequestValid(req) ==
    /\ req.monthly_amount > 0
    /\ req.years >= MinYears /\ req.years <= MaxYears
    /\ req.country \in SupportedCountries
    /\ req.risk_level \in RiskLevels

\* future value of an ordinary annuity, in cents
FutureValue(monthly_amount, annual_return, months) ==
    IF annual_return > 0
    THEN monthly_amount * AnnuityFactor(annual_return, months)
    ELSE monthly_amount * months * 100

MilestoneYears == <<5, 10, 15, 20, 25, 30>>

\* the milestones list with `if year < request.years`
ProjectionMilestonesBefore(monthly_amount, per, annual_return, years) ==
    LET due == SelectSeq(MilestoneYears, LAMBDA year : year < years)
    IN [i \in 1..Len(due) |->
          [year |-> due[i],
           value |-> RoundDiv(FutureValue(monthly_amount, annual_return,
                                          due[i] * 12), per),
           contributed |-> RoundDiv(monthly_amount * due[i] * 12 * 100, per)]]

\* the milestones list of the response, for a monthly amount of
\* monthly_amount / per currency units: round(year_value, 2) and
\* round(monthly_amount * year_months, 2), in cents
ProjectionMilestones(monthly_amount, per, annual_return, years) ==
    LET due == SelectSeq(MilestoneYears, LAMBDA year : year <= years)
    IN [i \in 1..Len(due) |->
          [year |-> due[i],
           value |-> RoundDiv(FutureValue(monthly_amount, annual_return,
                                          due[i] * 12), per),
           contributed |-> RoundDiv(monthly_amount * due[i] * 12 * 100, per)]]

\* the response the handler builds from its locals country_info and
\* annual_return
SavingsProjectionResult(req, country_info, annual_return) ==
    LET months == req.years * 12
        per == req.amount_per
        \* in 1 / per of a cent
        future_value == FutureValue(req.monthly_amount, annual_return, months)
        total_contributed == req.monthly_amount * months * 100
        total_interest == future_value - total_contributed
    IN [total_value |-> RoundDiv(future_value, per),
        total_contributed |-> RoundDiv(total_contributed, per),
        total_interest |-> RoundDiv(total_interest, per),
        monthly_income_at_retirement |-> RoundDiv(future_value, 300 * per),
        roi_percentage |->
            IF total_contributed > 0
            THEN MulDivRound(total_interest, 100, req.monthly_amount * months)
            ELSE 0,
        country |-> req.country,
        currency |-> country_info.currency,
        annual_return_rate |-> annual_return,
        milestones |-> ProjectionMilestones(req.monthly_amount, per,
                                            annual_return, req.years),
        years |-> req.years,
        risk_level |-> req.risk_level]

\* the body of the handler's try block
SavingsProjectionBody(req, fault) ==
    IF req.country \notin DOMAIN COUNTRIES THEN Raise("KeyError: country")
    ELSE IF req.risk_level \notin RiskLevels THEN Raise("KeyError: risk_level")
    ELSE IF fault # NoFault THEN Raise(fault)
    ELSE Value(SavingsProjectionResult(
                   req, COUNTRIES[req.country],
                   get_country_investment_returns(req.country)[req.risk_level]))

\* except Exception as e: HTTPException(500, f"Calculation error: {str(e)}")
SavingsProjectionHandler(req, fault) ==
    LET body == SavingsProjectionBody(req, fault)
    IN IF body.raised
       THEN HttpResponse(500, <<"Calculation error: ", body.exc>>, NoResult)
       ELSE HttpResponse(200, <<>>, body.value)

\* request validation, then the handler
SavingsProjectionEndpoint(req, fault) ==
    IF ~SavingsRequestValid(req)
    THEN HttpResponse(422, <<"validation error">>, NoResult)
    ELSE SavingsProjectionHandler(req, fault)

Amounts == {-MaxMonthly, 0, 1, MaxMonthly}

\* monthly_amount is a float: the smallest amount a caller sends is 1 / Grain
\* of a currency unit
Grain == 100000

\* the amounts sent to the endpoint, as <<monthly_amount, amount_per>> for
\* monthly_amount / amount_per currency units
AmountInputs == { <<a, 1>> : a \in Amounts } \cup { <<1, Grain>> }
Years == (MinYears - 1)..(MaxYears + YearsOver)
CountryCodes == SupportedCountries \cup {"FR"}
RiskInputs == RiskLevels \cup {"reckless"}

calculate_savings_projection ==
    /\ request = Idle
    /\ tables' = tables
    /\ UNCHANGED <<failed, inflight>>
    /\ \E amount \in AmountInputs, years \in Years, country \in CountryCodes,
          risk_level \in RiskInputs, fault \in Faults :
         LET req == [op |-> "calculate_savings_projection",
                     monthly_amount |-> amount[1], amount_per |-> amount[2],
                     years |-> years,
                     country |-> country, risk_level |-> risk_level,
                     fault |-> fault]
         IN /\ request' = req
            /\ response' = SavingsProjectionEndpoint(req, fault)

-----------------------------------------------------------------------------
(* simple_server.py: POST /calculate-savings-projection served concurrently *)

\* connections the server holds open at once
MaxConnections == 2
Connections == 1..MaxConnections

\* a connection no request has arrived on
FreeConnection ==
    [pc |-> "free", request |-> Idle,
     locals |-> [country_info |-> NoResult, annual_return |-> 0],
     response |-> NoResponse]

\* the requests sent concurrently
ConcurrentRequests ==
    [op : {"calculate_savings_projection"},
     monthly_amount : {0, MaxMonthly}, amount_per : {1},
     years : {MinYears + 9},
     country : {"US", "IN"}, risk_level : {"moderate"},
     fault : {NoFault, "MemoryError: out of memory"}]

\* the handler works on the request object of a module-level name every
\* connection assigns: the request of the lowest connection being served
HandlerRequestShared(conns, c) ==
    conns[CHOOSE d \in Connections :
              /\ conns[d].pc # "free"
              /\ \A e \in Connections : conns[e].pc # "free" => d <= e].request

\* the request the handler of connection c works on: its own parameter
HandlerRequest(conns, c) == conns[c].request

\* the request arrives on a free connection
Accept(c) ==
    /\ inflight[c].pc = "free"
    /\ \E req \in ConcurrentRequests :
         inflight' = [inflight EXCEPT ![c] =
                         [@ EXCEPT !.pc = "validate", !.request = req]]
    /\ UNCHANGED <<request, response, tables, failed>>

\* FastAPI builds the SavingsRequest: HTTP 422 if a Field constraint fails
Validate(c) ==
    /\ inflight[c].pc = "validate"
    /\ inflight' = [inflight EXCEPT ![c] =
          IF SavingsRequestValid(@.request)
          THEN [@ EXCEPT !.pc = "lookup"]
          ELSE [@ EXCEPT !.pc = "respond",
                         !.response = HttpResponse(422, <<"validation error">>,
                                                   NoResult)]]
    /\ UNCHANGED <<request, response, tables, failed>>

\* the handler binds country_info and annual_return
Lookup(c) ==
    /\ inflight[c].pc = "lookup"
    /\ LET req == HandlerRequest(inflight, c)
       IN inflight' = [inflight EXCEPT ![c] =
            IF req.country \notin DOMAIN COUNTRIES \/ req.risk_level \notin RiskLevels
            THEN [@ EXCEPT !.pc = "respond",
                           !.response = SavingsProjectionHandler(req, req.fault)]
            ELSE [@ EXCEPT !.pc = "compute",
                           !.locals =
                               [country_info |-> COUNTRIES[req.country],
                                annual_return |->
                                    get_country_investment_returns(req.country)
                                        [req.risk_level]]]]
    /\ UNCHANGED <<request, response, tables, failed>>

\* the handler computes the projection from its locals, or an exception
\* leaves the try block
Compute(c) ==
    /\ inflight[c].pc = "compute"
    /\ LET req == HandlerRequest(inflight, c)
           locals == inflight[c].locals
       IN inflight' = [inflight EXCEPT ![c] =
            [@ EXCEPT !.pc = "respond",
                      !.response =
                          IF req.fault # NoFault
                          THEN HttpResponse(500, <<"Calculation error: ",
                                                   req.fault>>, NoResult)
                          ELSE HttpResponse(200, <<>>,
                                   SavingsProjectionResult(
                                       req, locals.country_info,
                                       locals.annual_return))]]
    /\ UNCHANGED <<request, response, tables, failed>>

\* the response is sent and the connection is free again
Respond(c) ==
    /\ inflight[c].pc = "respond"
    /\ inflight' = [inflight EXCEPT ![c] = FreeConnection]
    /\ UNCHANGED <<request, response, tables, failed>>

-----------------------------------------------------------------------------
(* simple_server.py: GET /financial-advice/{country} *)

\* age: int = Query(..., ge=18, le=100)
MinAge == 18
MaxAge == 100

\* the Query constraints FastAPI enforces (HTTP 422); country is a free path
\* parameter
AdviceQueryValid(req) ==
    /\ req.annual_income > 0
    /\ req.age >= MinAge /\ req.age <= MaxAge
    /\ req.dependents >= 0
    /\ req.current_savings >= 0
    /\ req.risk_tolerance \in RiskLevels

\* str(e) of HTTPException(status_code=400, detail="Unsupported country")
UnsupportedCountry == "400: Unsupported country"

\* the body of the handler's try block; money in cents
FinancialAdviceBody(req, fault) ==
    IF req.country \notin DOMAIN COUNTRIES THEN Raise(UnsupportedCountry)
    ELSE IF fault # NoFault THEN Raise(fault)
    ELSE
      LET country_info == COUNTRIES[req.country]
          emergency_months ==
              IF country_info.economic_stability = "high" THEN 6 ELSE 9
          \* max(0.15, min(0.30, rate)), in tenths of a percent
          savings_rate_target ==
              Max2(150, Min2(300, country_info.typical_savings_rate))
          years_to_retirement == country_info.retirement_age - req.age
          retirement_multiplier ==
              IF country_info.social_security THEN 25 ELSE 30
      IN Value(
          [country |-> req.country,
           recommendations |->
             [emergency_fund_target |->
                  RoundDiv(req.annual_income * emergency_months * 100, 12),
              monthly_savings_target |->
                  RoundDiv(req.annual_income * savings_rate_target, 120),
              retirement_target |->
                  req.annual_income * retirement_multiplier * 100,
              years_to_retirement |-> years_to_retirement],
           current_status |->
             [savings_rate |->
                  MulDivRound(req.current_savings, 10000, req.annual_income),
              emergency_fund_coverage |->
                  MulDivRound(req.current_savings, 120, req.annual_income)],
           tips_for |-> req.country,
           typical_savings_rate |-> country_info.typical_savings_rate])

\* except Exception as e: HTTPException(500, f"Advice generation error: {str(e)}")
\* (HTTPException is an Exception: the 400 raised in the body is caught too)
FinancialAdviceHandler(req, fault) ==
    LET body == FinancialAdviceBody(req, fault)
    IN IF body.raised
       THEN HttpResponse(500, <<"Advice generation error: ", body.exc>>, NoResult)
       ELSE HttpResponse(200, <<>>, body.value)

FinancialAdviceEndpoint(req, fault) ==
    IF ~AdviceQueryValid(req)
    THEN HttpResponse(422, <<"validation error">>, NoResult)
    ELSE FinancialAdviceHandler(req, fault)

\* largest annual income (whole currency units) of a caller
MaxIncome == 24000

Incomes == {0, MaxIncome \div 2, MaxIncome}
Ages == (MinAge - 1)..(MaxAge + 1)
Savings == {0, MaxIncome \div 4}

get_financial_advice ==
    /\ request = Idle
    /\ tables' = tables
    /\ UNCHANGED <<failed, inflight>>
    /\ \E country \in CountryCodes, annual_income \in Incomes, age \in Ages,
          current_savings \in Savings, fault \in Faults :
         LET req == [op |-> "get_financial_advice", country |-> country,
                     annual_income |-> annual_income, age |-> age,
                     dependents |-> 0, current_savings |-> current_savings,
                     risk_tolerance |-> "moderate", fault |-> fault]
         IN /\ request' = req
            /\ response' = FinancialAdviceEndpoint(req, fault)

-----------------------------------------------------------------------------
(* global_finance_engine.py: GlobalFinanceEngine *)

\* _load_countries_data: tax rate and insurance multipliers in percent
load_countries_data ==
    (  "US" :> [currency |-> "USD", tax_rate |-> 25, avg_salary |-> 75000,
                retirement_age |-> 65,
                insurance_multipliers |->
                    [health |-> 100, property |-> 100, life |-> 100, auto |-> 100]]
    @@ "IN" :> [currency |-> "INR", tax_rate |-> 20, avg_salary |-> 800000,
                retirement_age |-> 60,
                insurance_multipliers |->
                    [health |-> 15, property |-> 20, life |-> 12, auto |-> 18]]
    @@ "UK" :> [currency |-> "GBP", tax_rate |-> 20, avg_salary |-> 35000,
                retirement_age |-> 66,
                insurance_multipliers |->
                    [health |-> 30, property |-> 80, life |-> 85, auto |-> 90]]
    @@ "CA" :> [currency |-> "CAD", tax_rate |-> 26, avg_salary |-> 65000,
                retirement_age |-> 65,
                insurance_multipliers |->
                    [health |-> 25, property |-> 75, life |-> 80, auto |-> 85]]
    @@ "AU" :> [currency |-> "AUD", tax_rate |-> 32, avg_salary |-> 85000,
                retirement_age |-> 67,
                insurance_multipliers |->
                    [health |-> 40, property |-> 85, life |-> 90, auto |-> 95]]
    @@ "DE" :> [currency |-> "EUR", tax_rate |-> 42, avg_salary |-> 55000,
                retirement_age |-> 67,
                insurance_multipliers |->
                    [health |-> 20, property |-> 70, life |-> 75, auto |-> 80]] )

\* self.countries_data
countries_data == tables.countries_data

\* _load_exchange_rates, in hundredths (83.15 -> 8315)
load_exchange_rates ==
    (  "USD" :> 100 @@ "INR" :> 8315 @@ "GBP" :> 79
    @@ "CAD" :> 135 @@ "AUD" :> 152 @@ "EUR" :> 92 )

\* self.exchange_rates
exchange_rates == tables.exchange_rates

\* what a country code is looked up as when the lookup falls back
DefaultCountry == "US"

\* the pricing with the amounts cut to two decimals (int(x * 100) / 100)
\* instead of rounded
PremiumUnderTruncated(base_premium_usd, code, insurance_type) ==
    LET country == countries_data[code]
        multiplier ==
            IF insurance_type \in DOMAIN country.insurance_multipliers
            THEN country.insurance_multipliers[insurance_type] ELSE 100
        adjusted == base_premium_usd * multiplier
        exchange_rate == exchange_rates[country.currency]
        local_premium == adjusted * exchange_rate
    IN Value(
        [amount |-> TruncDiv(local_premium, 10000),
         currency |-> country.currency,
         usd_equivalent |-> RoundDiv(adjusted, 100),
         monthly |-> TruncDiv(local_premium, 12 * 10000),
         quarterly |-> TruncDiv(local_premium, 4 * 10000)])

\* the pricing of calculate_country_premium under the profile of a known
\* code; base_premium_usd and the results in cents
PremiumUnder(base_premium_usd, code, insurance_type) ==
    LET country == countries_data[code]
        \* country["insurance_multipliers"].get(insurance_type, 1.0)
        multiplier ==
            IF insurance_type \in DOMAIN country.insurance_multipliers
            THEN country.insurance_multipliers[insurance_type] ELSE 100
        \* adjusted_premium_usd, in ten-thousandths of a dollar
        adjusted == base_premium_usd * multiplier
        exchange_rate == exchange_rates[country.currency]
        \* local_premium, in millionths of the local unit
        local_premium == adjusted * exchange_rate
    IN Value(
        [amount |-> RoundDiv(local_premium, 10000),
         currency |-> country.currency,
         usd_equivalent |-> RoundDiv(adjusted, 100),
         monthly |-> RoundDiv(local_premium, 12 * 10000),
         quarterly |-> RoundDiv(local_premium, 4 * 10000)])

\* calculate_country_premium with countries_data[country_code] looked up
\* directly
CountryPremiumNoFallback(base_premium_usd, country_code, insurance_type) ==
    IF country_code \notin DOMAIN countries_data
    THEN Raise("KeyError: country_code")
    ELSE PremiumUnder(base_premium_usd, country_code, insurance_type)

\* calculate_country_premium: an unknown code is priced as the default one
CountryPremium(base_premium_usd, country_code, insurance_type) ==
    PremiumUnder(base_premium_usd,
                 IF country_code \notin DOMAIN countries_data
                 THEN DefaultCountry ELSE country_code,
                 insurance_type)

\* largest base premium (cents) a caller prices
MaxPremium == 120

InsuranceTypes == {"health", "property", "life", "auto"}

\* the outcome of a direct call
Outcome(r) == IF r.raised THEN Raised(r.exc) ELSE Returned(r.value)

\* the fallback written as an entry added to countries_data
PremiumFallbackCached(t, country_code) ==
    IF country_code \in DOMAIN t.countries_data
    THEN t
    ELSE [t EXCEPT !.countries_data =
                       @ @@ (country_code :> @[DefaultCountry])]

\* the tables after calculate_country_premium: `country_code = "US"` rebinds
\* the parameter and no table is assigned
PremiumFallbackTables(t, country_code) == t

calculate_country_premium ==
    /\ request = Idle
    /\ UNCHANGED <<failed, inflight>>
    /\ \E base_premium_usd \in 0..MaxPremium, country_code \in CountryCodes,
          insurance_type \in InsuranceTypes \cup {"pet"} :
         /\ request' = [op |-> "calculate_country_premium",
                        base_premium_usd |-> base_premium_usd,
                        country_code |-> country_code,
                        insurance_type |-> insurance_type]
         /\ response' = Outcome(CountryPremium(base_premium_usd, country_code,
                                               insurance_type))
         /\ tables' = PremiumFallbackTables(tables, country_code)

\* the countries get_country_specific_policies holds policies for
PolicyCountries == {"US", "IN", "UK"}

\* get_country_specific_policies: policies.get(country_code, policies["US"])
CountryPolicies(country_code) ==
    Value([policies_of |-> IF country_code \in PolicyCountries
                           THEN country_code ELSE DefaultCountry])

get_country_specific_policies ==
    /\ request = Idle
    /\ tables' = tables
    /\ UNCHANGED <<failed, inflight>>
    /\ \E country_code \in CountryCodes :
         /\ request' = [op |-> "get_country_specific_policies",
                        country_code |-> country_code]
         /\ response' = Outcome(CountryPolicies(country_code))

-----------------------------------------------------------------------------
(* GlobalFinanceEngine._calculate_fire_timeline *)

\* <<quotient, remainder>> of a * b by c, by halving b, without forming
\* a * b (a, b >= 0, c > 0)
RECURSIVE MulDivQR(_, _, _)
MulDivQR(a, b, c) ==
    IF b = 0 THEN <<0, 0>>
    ELSE LET h == MulDivQR(a, b \div 2, c)
             q2 == (2 * h[1]) + ((2 * h[2]) \div c)
             r2 == (2 * h[2]) % c
         IN IF b % 2 = 0 THEN <<q2, r2>>
            ELSE <<q2 + (a \div c) + ((r2 + (a % c)) \div c), (r2 + (a % c)) % c>>

\* floor(a * b / c)
BigMulDiv(a, b, c) == MulDivQR(a, b, c)[1]

\* one year of growth: g * (1 + annual_return)
YearStep(g, annual_return) == g + MulDivRound(g, annual_return, 1000)

\* (1 + annual_return) ** k at Scale
RECURSIVE YearsFactor(_, _)
YearsFactor(annual_return, k) ==
    IF k = 0 THEN Scale
    ELSE YearStep(YearsFactor(annual_return, k - 1), annual_return)

\* the largest k with g * (1 + annual_return)^k <= x, counted from k: by
\* decades while a whole decade fits, then by years (annual_return > 0, g <= x)
RECURSIVE WholeYears(_, _, _, _)
WholeYears(g, x, annual_return, k) ==
    LET decade == BigMulDiv(g, YearsFactor(annual_return, 10), Scale)
    IN IF decade <= x THEN WholeYears(decade, x, annual_return, k + 10)
       ELSE IF YearStep(g, annual_return) > x THEN k
       ELSE WholeYears(YearStep(g, annual_return), x, annual_return, k + 1)

\* int(math.log(num / den) / math.log(1 + annual_return)) for num / den > 0:
\* the whole years, truncated towards zero
IntLogYears(num, den, annual_return) ==
    LET n == IF num >= 0 THEN num ELSE -num
        d == IF den >= 0 THEN den ELSE -den
    IN IF n >= d
       THEN WholeYears(Scale, BigMulDiv(n, Scale, d), annual_return, 0)
       ELSE -WholeYears(Scale, BigMulDiv(d, Scale, n), annual_return, 0)

None == [is_none |-> TRUE, years |-> 0]
Some(n) == [is_none |-> FALSE, years |-> n]

\* the positive-return branch returning int(years) without max(1, ...)
FireLogBranchUnclamped(target, current, annual_investment, annual_return) ==
    LET num == (target * annual_return) + (annual_investment * 1000)
        den == (current * annual_return) + (annual_investment * 1000)
    IN IF den = 0 THEN Raise("ZeroDivisionError")
       ELSE IF num = 0 \/ (num > 0) # (den > 0) THEN Raise("ValueError: math domain error")
       ELSE Value(Some(IntLogYears(num, den, annual_return)))

\* the try block of the positive-return branch; target, current and
\* annual_investment in whole units, annual_return in per-mille
FireLogBranch(target, current, annual_investment, annual_return) ==
    LET num == (target * annual_return) + (annual_investment * 1000)
        den == (current * annual_return) + (annual_investment * 1000)
    IN IF den = 0 THEN Raise("ZeroDivisionError")
       ELSE IF num = 0 \/ (num > 0) # (den > 0) THEN Raise("ValueError: math domain error")
       ELSE Value(Some(Max2(1, IntLogYears(num, den, annual_return))))

\* _calculate_fire_timeline without the try/except around the logarithm
FireTimelineNoExcept(target, current, annual_investment, annual_return) ==
    IF annual_investment <= 0 THEN Value(None)
    ELSE IF annual_return > 0
    THEN FireLogBranch(target, current, annual_investment, annual_return)
    ELSE LET diff == target - current
         IN IF diff > 0
            THEN Value(Some(Max2(1, TruncDiv(diff, annual_investment))))
            ELSE Value(None)

\* _calculate_fire_timeline: the result, or the exception that leaves it
FireTimeline(target, current, annual_investment, annual_return) ==
    IF annual_investment <= 0 THEN Value(None)
    ELSE IF annual_return > 0
    THEN LET tried == FireLogBranch(target, current, annual_investment,
                                    annual_return)
         \* except: return None
         IN IF tried.raised THEN Value(None) ELSE tried
    ELSE LET diff == target - current
         \* years = (target - current) / annual_investment
         IN IF diff > 0
            THEN Value(Some(Max2(1, TruncDiv(diff, annual_investment))))
            ELSE Value(None)

\* largest FIRE target (whole units) of a direct call
MaxTarget == 400

Targets == {-MaxTarget, 0, MaxTarget \div 2, MaxTarget}
Currents == {-MaxTarget, -(MaxTarget \div 4), 0, MaxTarget \div 2, MaxTarget * 2}
Investments == {-(MaxTarget \div 40), 0, 1, MaxTarget \div 40, MaxTarget \div 2}
FireReturns == {-50, 0, 40, 70, 100, 120}

calculate_fire_timeline ==
    /\ request = Idle
    /\ tables' = tables
    /\ UNCHANGED <<failed, inflight>>
    /\ \E target \in Targets, current \in Currents,
          annual_investment \in Investments, annual_return \in FireReturns :
         /\ request' = [op |-> "calculate_fire_timeline", target |-> target,
                        current |-> current,
                        annual_investment |-> annual_investment,
                        annual_return |-> annual_return]
         /\ response' = Outcome(FireTimeline(target, current, annual_investment,
                                             annual_return))

-----------------------------------------------------------------------------
(* GlobalFinanceEngine.calculate_savings_projections and _calculate_milestones *)

MilestoneTargets == <<10000, 50000, 100000, 250000, 500000, 1000000>>

\* the horizon beyond which a milestone is dropped: if years <= 50
MilestoneHorizon == 50

\* the n in lo..hi-1 with Growth(n) <= x < Growth(n + 1), by bisection
\* (Growth(lo) <= x < Growth(hi))
RECURSIVE FloorMonths(_, _, _, _)
FloorMonths(x, annual_return, lo, hi) ==
    IF hi - lo <= 1 THEN lo
    ELSE LET mid == (lo + hi) \div 2
         IN IF Growth(annual_return, mid) <= x
            THEN FloorMonths(x, annual_return, mid, hi)
            ELSE FloorMonths(x, annual_return, lo, mid)

\* math.log(x / Scale) / math.log(1 + monthly_return) for x >= Scale, in
\* hundredths of a month: the whole months and, within the month, the
\* linear share (beyond the growth table: the table's end)
MonthsOf(x, annual_return) ==
    IF x >= Growth(annual_return, MaxMonths) THEN MaxMonths * 100
    ELSE LET n == FloorMonths(x, annual_return, 0, MaxMonths)
             g0 == Growth(annual_return, n)
             g1 == Growth(annual_return, n + 1)
         IN (n * 100) + (((x - g0) * 100) \div (g1 - g0))

\* the same for every x > 0: below Scale the logarithm is negative
LogMonths(x, annual_return) ==
    IF x >= Scale THEN MonthsOf(x, annual_return)
    ELSE -MonthsOf(BigMulDiv(Scale, Scale, x), annual_return)

\* the years needed with `years = milestone / monthly_amount` in the branch
\* without return: the months taken for years
MilestoneMonthsAsYears(milestone, monthly_amount, annual_return) ==
    IF annual_return > 0
    THEN IF monthly_amount = 0 THEN Raise("ZeroDivisionError")
         ELSE
           LET ratio == RoundDiv(milestone * annual_return * (Scale \div 12000),
                                 IF monthly_amount > 0 THEN monthly_amount
                                 ELSE -monthly_amount)
               x == IF monthly_amount > 0 THEN Scale + ratio ELSE Scale - ratio
           IN IF x <= 0 THEN Raise("ValueError: math domain error")
              ELSE Value(LogMonths(x, annual_return))
    ELSE IF monthly_amount = 0 THEN Raise("ZeroDivisionError")
         ELSE Value(IF monthly_amount > 0
                    THEN (milestone * 1200) \div monthly_amount
                    ELSE -((milestone * 1200) \div (-monthly_amount)))

\* years needed for one milestone, in hundredths of a month, or the
\* exception the arithmetic raises
MilestoneMonths(milestone, monthly_amount, annual_return) ==
    IF annual_return > 0
    THEN IF monthly_amount = 0 THEN Raise("ZeroDivisionError")
         ELSE
           \* 1 + milestone * monthly_return / monthly_amount, at Scale
           LET ratio == RoundDiv(milestone * annual_return * (Scale \div 12000),
                                 IF monthly_amount > 0 THEN monthly_amount
                                 ELSE -monthly_amount)
               x == IF monthly_amount > 0 THEN Scale + ratio ELSE Scale - ratio
           IN IF x <= 0 THEN Raise("ValueError: math domain error")
              ELSE Value(LogMonths(x, annual_return))
    ELSE IF monthly_amount = 0 THEN Raise("ZeroDivisionError")
         \* years = milestone / (monthly_amount * 12)
         ELSE Value(IF monthly_amount > 0
                    THEN (milestone * 100) \div monthly_amount
                    ELSE -((milestone * 100) \div (-monthly_amount)))

\* the entry of one milestone; years in tenths, monthly_income in cents
MilestoneEntry(milestone, months, annual_return, country) ==
    [amount |-> milestone,
     years |-> RoundDiv(months, 120),
     currency |-> country.currency,
     monthly_income |-> RoundDiv(milestone * annual_return, 120)]

\* _calculate_milestones: the list, or the first exception of the loop
RECURSIVE MilestonesFrom(_, _, _, _, _)
MilestonesFrom(i, results, monthly_amount, annual_return, country) ==
    IF i > Len(MilestoneTargets) THEN Value(results)
    ELSE LET milestone == MilestoneTargets[i]
             months == MilestoneMonths(milestone, monthly_amount, annual_return)
         IN IF months.raised THEN Raise(months.exc)
            ELSE MilestonesFrom(
                   i + 1,
                   IF months.value <= MilestoneHorizon * 12 * 100
                   THEN Append(results, MilestoneEntry(milestone, months.value,
                                                       annual_return, country))
                   ELSE results,
                   monthly_amount, annual_return, country)

\* the list built with results.insert(0, ...) instead of results.append(...)
CalculateMilestonesPrepended(monthly_amount, annual_return, country) ==
    LET r == MilestonesFrom(1, <<>>, monthly_amount, annual_return, country)
    IN IF r.raised THEN r
       ELSE Value([i \in 1..Len(r.value) |-> r.value[Len(r.value) + 1 - i]])

CalculateMilestones(monthly_amount, annual_return, country) ==
    MilestonesFrom(1, <<>>, monthly_amount, annual_return, country)

\* the monthly amounts and annual returns _calculate_milestones is called with
MilestoneAmounts == Amounts \cup 1..MaxMonthly
MilestoneReturns == ReturnRates \cup {0}

calculate_milestones ==
    /\ request = Idle
    /\ tables' = tables
    /\ UNCHANGED <<failed, inflight>>
    /\ \E monthly_amount \in MilestoneAmounts,
          annual_return \in MilestoneReturns,
          country_code \in SupportedCountries :
         /\ request' = [op |-> "calculate_milestones",
                        monthly_amount |-> monthly_amount,
                        annual_return |-> annual_return,
                        country_code |-> country_code]
         /\ response' = Outcome(CalculateMilestones(
                                    monthly_amount, annual_return,
                                    countries_data[country_code]))

\* calculate_savings_projections; money in cents
SavingsProjections(monthly_amount, years, country_code, risk_level) ==
    IF country_code \notin DOMAIN investment_returns
    THEN Raise("KeyError: country_code")
    ELSE IF risk_level \notin DOMAIN investment_returns[country_code]
    THEN Raise("KeyError: risk_level")
    ELSE
      LET annual_return == investment_returns[country_code][risk_level]
          country == countries_data[country_code]
          simple_units == monthly_amount * 12 * years
          simple_total == simple_units * 100
          investment_total ==
              FutureValue(monthly_amount, annual_return, years * 12)
          gains == investment_total - simple_total
          tax_on_gains == MulDivRound(gains, country.tax_rate, 100)
          milestones == CalculateMilestones(monthly_amount, annual_return, country)
      IN \* round(investment_total / simple_total, 2)
         IF simple_total = 0 THEN Raise("ZeroDivisionError")
         ELSE IF milestones.raised THEN Raise(milestones.exc)
         ELSE Value(
           [simple_savings |-> [total |-> simple_total,
                                monthly |-> monthly_amount,
                                currency |-> country.currency],
            investment_growth |-> [total |-> investment_total,
                                   gains |-> gains,
                                   return_rate |-> annual_return,
                                   after_tax |-> investment_total - tax_on_gains],
            comparison |->
               [additional_wealth |-> gains,
                wealth_multiplier |->
                    IF simple_units > 0
                    THEN RoundDiv(investment_total, simple_units)
                    ELSE RoundDiv(-investment_total, -simple_units),
                monthly_passive_income |->
                    MulDivRound(investment_total, annual_return, 12000)],
            milestones |-> milestones.value])

calculate_savings_projections ==
    /\ request = Idle
    /\ tables' = tables
    /\ UNCHANGED <<failed, inflight>>
    /\ \E monthly_amount \in Amounts, years \in Years,
          country_code \in CountryCodes, risk_level \in RiskInputs :
         /\ request' = [op |-> "calculate_savings_projections",
                        monthly_amount |-> monthly_amount, years |-> years,
                        country_code |-> country_code, risk_level |-> risk_level]
         /\ response' = Outcome(SavingsProjections(monthly_amount, years,
                                                   country_code, risk_level))

-----------------------------------------------------------------------------
(* GlobalFinanceEngine.generate_financial_advice *)

\* _get_investment_allocation
InvestmentAllocation(age, risk_tolerance) ==
    LET shift == IF age < 30 THEN 0 ELSE IF age < 45 THEN 10 ELSE 20
    IN IF risk_tolerance = "aggressive"
       THEN [stocks |-> 80 - shift, bonds |-> 15 + shift, cash |-> 5]
       ELSE IF risk_tolerance = "conservative"
       THEN [stocks |-> 60 - shift, bonds |-> 30 + shift, cash |-> 10]
       ELSE [stocks |-> 70 - shift, bonds |-> 25 + shift, cash |-> 5]

\* _calculate_financial_independence; monthly_income and
\* investment_capacity are fixed shares of the annual income, money in cents
FinancialIndependence(user_profile, country_code) ==
    IF country_code \notin DOMAIN countries_data
    THEN Raise("KeyError: country_code")
    ELSE
      LET age == user_profile.age
          annual_income == user_profile.annual_income
          country == countries_data[country_code]
          years_to_retirement == country.retirement_age - age
          annual_return == investment_returns[country_code].moderate
          \* annual_expenses * 25 = 17.5 * annual_income
          fire_number == 1750 * annual_income
          current_savings == user_profile.current_savings
          \* 70 % of the 30 % of the monthly income left after expenses
          monthly_investment == RoundDiv(175 * annual_income, 100)
          future_value ==
              BigMulDiv(current_savings * 100,
                        YearsFactor(annual_return, years_to_retirement), Scale)
              + MulDivRound(AnnuityFactor(annual_return, years_to_retirement * 12),
                            monthly_investment, 100)
          fire == FireTimeline(RoundDiv(fire_number, 100), current_savings,
                               RoundDiv(21 * annual_income, 100), annual_return)
          fire_years == fire.value
      IN IF fire.raised THEN Raise(fire.exc)
         ELSE Value(
           [fire_number |-> fire_number,
            current_savings |-> current_savings * 100,
            projected_retirement_fund |-> future_value,
            monthly_investment_needed |-> monthly_investment,
            years_to_retirement |-> years_to_retirement,
            fire_timeline_years |-> fire_years,
            \* age + fire_years if fire_years else None
            financial_independence_age |->
                IF ~fire_years.is_none /\ fire_years.years # 0
                THEN Some(age + fire_years.years) ELSE None,
            monthly_passive_income_at_retirement |->
                MulDivRound(future_value, annual_return, 1000 * 12)])

\* generate_financial_advice; money in cents
FinancialAdvice(user_profile, country_code) ==
    LET country == IF country_code \in DOMAIN countries_data
                   THEN countries_data[country_code]
                   ELSE countries_data[DefaultCountry]
        annual_income == user_profile.annual_income
        \* emergency_fund_needed = monthly_expenses * 6
        emergency_fund_needed == 35 * annual_income
        independence == FinancialIndependence(user_profile, country_code)
    IN \* disposable_income / monthly_income, and the months_to_build quotient
       IF annual_income = 0 THEN Raise("ZeroDivisionError")
       ELSE IF independence.raised THEN Raise(independence.exc)
       ELSE Value(
         [country_context |-> [retirement_age |-> country.retirement_age,
                               tax_rate |-> country.tax_rate,
                               avg_salary |-> country.avg_salary,
                               currency |-> country.currency],
          monthly_analysis |->
             [income |-> RoundDiv(annual_income * 100, 12),
              estimated_expenses |-> RoundDiv(annual_income * 70, 12),
              disposable_income |-> RoundDiv(annual_income * 30, 12),
              savings_rate |-> 300],
          emergency_fund |->
             [target_amount |-> emergency_fund_needed,
              \* ceil(0.7 * 6 / (0.3 * 0.3))
              months_to_build |-> 47,
              priority |->
                  IF 2 * user_profile.emergency_fund * 100 < emergency_fund_needed
                  THEN "HIGH" ELSE "MEDIUM"],
          insurance_recommendations |->
             [monthly_budget |-> RoundDiv(annual_income * 10, 12)],
          investment_strategy |->
             [monthly_capacity |-> RoundDiv(annual_income * 21, 12),
              recommended_allocation |->
                  InvestmentAllocation(user_profile.age,
                                       user_profile.risk_tolerance)],
          financial_independence |-> independence.value])

\* ages of the engine's callers: not past any country's retirement age
AdviceAges == {25, 40, 60}
ProfileSavings == {0, MaxIncome \div 4, MaxIncome * 10}

generate_financial_advice ==
    /\ request = Idle
    /\ tables' = tables
    /\ UNCHANGED <<failed, inflight>>
    /\ \E country_code \in CountryCodes, annual_income \in Incomes,
          age \in AdviceAges, current_savings \in ProfileSavings,
          risk_tolerance \in RiskLevels :
         LET user_profile == [annual_income |-> annual_income, age |-> age,
                              current_savings |-> current_savings,
                              risk_tolerance |-> risk_tolerance,
                              emergency_fund |-> 0]
         IN /\ request' = [op |-> "generate_financial_advice",
                           user_profile |-> user_profile,
                           country_code |-> country_code]
            /\ response' = Outcome(FinancialAdvice(user_profile, country_code))

-----------------------------------------------------------------------------
(* GlobalFinanceEngine.get_motivational_content *)

\* money in whole currency units
MotivationalContent(user_age, savings_rate, country_code) ==
    IF country_code \notin DOMAIN countries_data
    THEN Raise("KeyError: country_code")
    ELSE
      LET country == countries_data[country_code]
          years_to_retirement == country.retirement_age - user_age
          \* potential_monthly_savings * 12
          yearly_savings == RoundDiv(country.avg_salary * savings_rate, 100)
          annual_return == investment_returns[country_code].moderate
          future_value ==
              IF annual_return > 0 /\ years_to_retirement > 0
              THEN MulDivRound(
                     BigMulDiv(yearly_savings,
                               YearsFactor(annual_return, years_to_retirement)
                                 - Scale,
                               Scale),
                     1000, annual_return)
              ELSE yearly_savings * years_to_retirement
      IN Value(
           [wealth_potential |->
               [retirement_fund |-> future_value,
                monthly_passive_income |->
                    MulDivRound(future_value, annual_return, 1000 * 12),
                currency |-> country.currency],
            \* round(potential_monthly_savings, 0) of the first action step
            action_steps |-> <<RoundDiv(yearly_savings, 12)>>])

get_motivational_content ==
    /\ request = Idle
    /\ tables' = tables
    /\ UNCHANGED <<failed, inflight>>
    /\ \E user_age \in AdviceAges \cup {70}, savings_rate \in {10, 20},
          country_code \in CountryCodes :
         /\ request' = [op |-> "get_motivational_content", user_age |-> user_age,
                        savings_rate |-> savings_rate,
                        country_code |-> country_code]
         /\ response' = Outcome(MotivationalContent(user_age, savings_rate,
                                                    country_code))

-----------------------------------------------------------------------------
(* api_server POST /analyze and HealthCopilot.analyze_health *)

\* str.lower() on the strings a request carries
Lower(str) ==
    IF str = "Male" THEN "male"
    ELSE IF str = "Female" THEN "female"
    ELSE IF str = "Diabetes" THEN "diabetes"
    ELSE IF str = "Obese" THEN "obese"
    ELSE IF str = "HIGH" THEN "high"
    ELSE IF str = "Moderate" THEN "moderate"
    ELSE IF str = "OVERWEIGHT" THEN "overweight"
    ELSE IF str = "Health" THEN "health"
    ELSE IF str = "LIFE" THEN "life"
    ELSE IF str = "Health Insurance" THEN "health insurance"
    ELSE IF str = "Property Insurance" THEN "property insurance"
    ELSE str

\* BMICalculator.calculate_bmi, in tenths: weight in kg, height in cm
calculate_bmi(weight, height) == RoundDiv(weight * 100000, height * height)

\* BMICalculator.categorize_bmi
categorize_bmi(bmi) ==
    IF bmi < 185 THEN "Underweight"
    ELSE IF bmi < 250 THEN "Normal weight"
    ELSE IF bmi < 300 THEN "Overweight"
    ELSE "Obese"

high_risk_conditions ==
    {"diabetes", "hypertension", "heart_disease", "high_cholesterol"}

Factor(name) == [kind |-> name, condition |-> ""]

\* the risk_factors list of CardiovascularRiskAssessor.assess_risk
risk_factors(metrics, bmi) ==
    LET gender == Lower(metrics.gender)
        age_risk == \/ gender = "male" /\ metrics.age >= 45
                    \/ gender = "female" /\ metrics.age >= 55
        medical == SelectSeq(metrics.medical_conditions,
                             LAMBDA c : Lower(c) \in high_risk_conditions)
    IN (IF bmi >= 300 THEN <<Factor("obesity")>>
        ELSE IF bmi >= 250 THEN <<Factor("overweight")>> ELSE <<>>)
       \o (IF age_risk THEN <<Factor("age")>> ELSE <<>>)
       \o (IF metrics.activity_level \in {"sedentary", "light"}
           THEN <<Factor("low_activity")>> ELSE <<>>)
       \o [i \in 1..Len(medical) |->
             [kind |-> "medical", condition |-> medical[i]]]

\* CardiovascularRiskAssessor.assess_risk
assess_risk(metrics, bmi) ==
    LET factors == risk_factors(metrics, bmi)
    IN [risk_level |->
            IF \/ Len(factors) >= 3
               \/ \E i \in 1..Len(factors) : factors[i].kind = "medical"
            THEN "high"
            ELSE IF Len(factors) >= 2 THEN "moderate"
            ELSE "low",
        \* the heading of the risk description
        description |-> IF bmi >= 300 THEN "HIGH CARDIOVASCULAR RISK"
                        ELSE "Risk factors identified",
        risk_factors |-> factors]

\* HealthCopilot.analyze_health
HealthAssessment(metrics) ==
    LET bmi == calculate_bmi(metrics.weight, metrics.height)
        risk == assess_risk(metrics, bmi)
    IN [bmi |-> bmi,
        bmi_category |-> categorize_bmi(bmi),
        risk_level |-> risk.risk_level,
        cardiovascular_risk |-> risk.description,
        risk_factors |-> risk.risk_factors]

\* HealthMetricsRequest: what the request model accepts
HealthMetricsValid(req) ==
    /\ req.weight > 0 /\ req.weight <= 1000
    /\ req.height > 0 /\ req.height <= 300
    /\ req.age > 0 /\ req.age <= 150

\* the body of the /analyze handler's try block
AnalyzeHealthBody(req, fault) ==
    IF fault # NoFault THEN Raise(fault)
    ELSE Value(HealthAssessment(req))

\* the /analyze handler: any exception becomes a 500 carrying its text
AnalyzeHealthHandler(req, fault) ==
    LET body == AnalyzeHealthBody(req, fault)
    IN IF body.raised
       THEN HttpResponse(500,
              <<"Internal server error during health analysis: ", body.exc>>,
              NoResult)
       ELSE HttpResponse(200, <<>>, body.value)

AnalyzeHealthEndpoint(req, fault) ==
    IF ~HealthMetricsValid(req)
    THEN HttpResponse(422, <<"validation error">>, NoResult)
    ELSE AnalyzeHealthHandler(req, fault)

\* heaviest weight (kg) a request carries
MaxWeight == 125
Weights == {w \in 0..MaxWeight : w % 5 = 0}
Heights == {0, 150, 175, 200, 301}
HealthAges == {0, 35, 45, 55}
Genders == {"male", "Female", "other"}
ActivityLevels == {"sedentary", "moderate"}
ConditionLists == {<<>>, <<"asthma">>, <<"Diabetes">>}

analyze_health ==
    /\ request = Idle
    /\ tables' = tables
    /\ UNCHANGED <<failed, inflight>>
    /\ \E weight \in Weights, height \in Heights, age \in HealthAges,
          gender \in Genders, activity_level \in ActivityLevels,
          medical_conditions \in ConditionLists, fault \in Faults :
         LET req == [op |-> "analyze_health", weight |-> weight,
                     height |-> height, age |-> age, gender |-> gender,
                     activity_level |-> activity_level,
                     medical_conditions |-> medical_conditions,
                     fault |-> fault]
         IN /\ request' = req
            /\ response' = AnalyzeHealthEndpoint(req, fault)

-----------------------------------------------------------------------------
(* business_intelligence.py: BusinessIntelligenceEngine *)

\* pricing_models["income_affordability"], in percent of income
income_affordability ==
    (  "budget_conscious" :> 5 @@ "standard" :> 8
    @@ "premium" :> 12 @@ "luxury" :> 20 )

\* market_data: conversion_rates in percent, lifetime_value_multipliers
market_data ==
    (  "young_professional" :> [conversion_rate |-> 25, lifetime |-> 15]
    @@ "family_builder"     :> [conversion_rate |-> 35, lifetime |-> 20]
    @@ "established_family" :> [conversion_rate |-> 45, lifetime |-> 25]
    @@ "pre_retiree"        :> [conversion_rate |-> 40, lifetime |-> 18]
    @@ "retiree"            :> [conversion_rate |-> 30, lifetime |-> 12]
    @@ "high_net_worth"     :> [conversion_rate |-> 60, lifetime |-> 35]
    @@ "budget_conscious"   :> [conversion_rate |-> 20, lifetime |-> 10] )

\* _determine_customer_segment; data.family_members is the number of
\* family members
CustomerSegmentOf(age, income, data) ==
    IF income >= 200000 \/ data.property_value >= 1000000 THEN "high_net_worth"
    ELSE IF age <= 30 THEN "young_professional"
    ELSE IF age <= 45 /\ data.family_members > 0 THEN "family_builder"
    ELSE IF age <= 55 THEN "established_family"
    ELSE IF age <= 65 THEN "pre_retiree"
    ELSE IF age > 65 THEN "retiree"
    ELSE "budget_conscious"

\* _calculate_affordability_level; debt_to_income_ratio in percent
AffordabilityLevelOf(income, data) ==
    LET debt_ratio == data.debt_to_income_ratio
    IN IF income >= 150000 /\ debt_ratio < 20 THEN "luxury"
       ELSE IF income >= 80000 /\ debt_ratio < 30 THEN "premium"
       ELSE IF income >= 40000 /\ debt_ratio < 40 THEN "standard"
       ELSE "basic"

\* _calculate_lifestyle_risk_score
LifestyleRiskScore(data) ==
    (IF data.smoking THEN 5 ELSE 0)
    + (IF data.drinking_frequency \in {"regularly", "heavy"} THEN 3
       ELSE IF data.drinking_frequency = "occasionally" THEN 1 ELSE 0)
    + (IF data.exercise_frequency = "never" THEN 3
       ELSE IF data.exercise_frequency = "light" THEN 1 ELSE 0)

\* the score of one of the two risks of _assess_property_risks
HazardScore(risk) ==
    IF risk = "high" THEN 4
    ELSE IF risk = "moderate" THEN 2
    ELSE IF risk = "low" THEN 1 ELSE 0

\* _assess_property_risks
PropertyRisks(data) ==
    HazardScore(data.hasFloodRisk) + HazardScore(data.earthquakeRisk)

\* _assess_risk_profile with >= 15 and >= 10 read as > 15 and > 10
RiskProfileStrict(data) ==
    LET total_risk_score == (data.medical_conditions * 2)
                            + LifestyleRiskScore(data) + PropertyRisks(data)
    IN IF total_risk_score > 15 THEN "high_risk"
       ELSE IF total_risk_score > 10 THEN "aggressive"
       ELSE IF total_risk_score >= 5 THEN "moderate"
       ELSE "conservative"

\* _assess_risk_profile; data.medical_conditions is the number of conditions
RiskProfileOf(data) ==
    LET total_risk_score == (data.medical_conditions * 2)
                            + LifestyleRiskScore(data) + PropertyRisks(data)
    IN IF total_risk_score >= 15 THEN "high_risk"
       ELSE IF total_risk_score >= 10 THEN "aggressive"
       ELSE IF total_risk_score >= 5 THEN "moderate"
       ELSE "conservative"

\* _calculate_monthly_budget, in cents:
\* pricing_models["income_affordability"][affordability.value]
MonthlyBudget(income, affordability) ==
    IF affordability \notin DOMAIN income_affordability
    THEN Raise("KeyError: affordability")
    ELSE Value(RoundDiv(income * income_affordability[affordability] * 100,
                        12 * 100))

\* _identify_key_motivators, for a customer without financial goals
KeyMotivators(data) ==
    LET found ==
          (IF data.family_members > 0
           THEN <<"Family protection and security">> ELSE <<>>)
          \o (IF data.medical_conditions > 0
              THEN <<"Managing existing health conditions">> ELSE <<>>)
          \o (IF data.property_value > 0 THEN <<"Asset protection">> ELSE <<>>)
    IN IF found = <<>> THEN <<"Peace of mind", "Financial security">> ELSE found

\* _create_customer_profile: the profile, or the exception that leaves it
CustomerProfile(data) ==
    LET age == data.age
        income == data.annual_income
        segment == CustomerSegmentOf(age, income, data)
        affordability == AffordabilityLevelOf(income, data)
        risk_profile == RiskProfileOf(data)
        monthly_budget == MonthlyBudget(income, affordability)
    IN IF monthly_budget.raised THEN Raise(monthly_budget.exc)
       ELSE Value(
         [segment |-> segment,
          affordability_level |-> affordability,
          risk_profile |-> risk_profile,
          monthly_budget |-> monthly_budget.value,
          lifetime_value_estimate |->
              monthly_budget.value * 12 * market_data[segment].lifetime,
          conversion_probability |->
              Min2(100, market_data[segment].conversion_rate
                        + (IF data.property_value > 0 THEN 10 ELSE 0)),
          key_motivators |-> KeyMotivators(data)])

\* _initialize_product_catalog: name and base_premium (dollars), coverage
product_catalog ==
    [health_insurance |->
        [basic    |-> [name |-> "Essential Health Protection",
                       base_premium |-> 150, coverage |-> 100000],
         standard |-> [name |-> "Complete Health Coverage",
                       base_premium |-> 300, coverage |-> 500000],
         premium  |-> [name |-> "Elite Health Protection",
                       base_premium |-> 600, coverage |-> 1000000]],
     life_insurance |->
        [term  |-> [name |-> "Term Life Protection",
                    base_premium |-> 100, coverage |-> 500000],
         whole |-> [name |-> "Whole Life Investment",
                    base_premium |-> 500, coverage |-> 1000000]],
     property_insurance |->
        [basic         |-> [name |-> "Essential Property Cover",
                            base_premium |-> 80, coverage |-> 200000],
         comprehensive |-> [name |-> "Complete Property Protection",
                            base_premium |-> 200, coverage |-> 800000]],
     auto_insurance |->
        [liability     |-> [name |-> "Basic Auto Coverage",
                            base_premium |-> 120, coverage |-> 100000],
         comprehensive |-> [name |-> "Full Auto Protection",
                            base_premium |-> 250, coverage |-> 500000]]]

\* _calculate_adjusted_premium, in cents: base_premium * age_multiplier
\* * (1 + 0.1 * conditions) * (1 + 0.05 * lifestyle_score)
AdjustedPremium(base_premium, age, data) ==
    LET age_multiplier ==
          IF age >= 18 /\ age <= 25 THEN 12
          ELSE IF age >= 26 /\ age <= 35 THEN 10
          ELSE IF age >= 36 /\ age <= 45 THEN 11
          ELSE IF age >= 46 /\ age <= 55 THEN 13
          ELSE IF age >= 56 /\ age <= 65 THEN 16
          ELSE IF age >= 66 /\ age <= 100 THEN 20
          ELSE 10
    IN RoundDiv(base_premium * age_multiplier * (10 + data.medical_conditions)
                  * (100 + (5 * LifestyleRiskScore(data))),
                100)

\* a ProductRecommendation; confidence_score in percent
Recommendation(product_type, product, premium, coverage, priority, confidence) ==
    [product_type |-> product_type, product_name |-> product.name,
     monthly_premium |-> premium, coverage_amount |-> coverage,
     priority |-> priority, confidence_score |-> confidence]

\* _recommend_health_insurance: <<>> for None
RecommendHealth(data, profile) ==
    IF \E i \in 1..Len(data.existing_insurance) :
         data.existing_insurance[i] = "health"
    THEN <<>>
    ELSE LET affordability == profile.affordability_level
             product ==
               IF affordability \in {"luxury", "premium"}
                  \/ data.medical_conditions > 0
               THEN product_catalog.health_insurance.premium
               ELSE IF affordability = "standard"
               THEN product_catalog.health_insurance.standard
               ELSE product_catalog.health_insurance.basic
             premium == AdjustedPremium(product.base_premium, data.age, data)
         IN <<Recommendation(
                "health_insurance", product, premium, product.coverage,
                IF data.medical_conditions > 0
                   \/ profile.segment \in {"family_builder", "established_family"}
                THEN "critical" ELSE "required",
                IF premium * 10 <= profile.monthly_budget * 6 THEN 90 ELSE 70)>>

\* _recommend_life_insurance
RecommendLife(data, profile) ==
    IF data.age > 70 \/ data.family_members = 0 THEN <<>>
    ELSE LET product ==
               IF profile.affordability_level \in {"luxury", "premium"}
                  /\ data.age < 50
               THEN product_catalog.life_insurance.whole
               ELSE product_catalog.life_insurance.term
             premium == AdjustedPremium(product.base_premium, data.age, data)
         IN <<Recommendation(
                "life_insurance", product, premium, data.annual_income * 8,
                IF data.family_members > 1 THEN "critical" ELSE "required",
                IF premium * 10 <= profile.monthly_budget * 4 THEN 85 ELSE 65)>>

\* _recommend_property_insurance
RecommendProperty(data, profile) ==
    IF data.property_value = 0 \/ data.property_type = "" THEN <<>>
    ELSE LET product ==
               IF data.property_value >= 500000
                  \/ profile.affordability_level \in {"luxury", "premium"}
               THEN product_catalog.property_insurance.comprehensive
               ELSE product_catalog.property_insurance.basic
             \* max(base_premium, property_value * 0.001)
             premium == Max2(product.base_premium * 100, data.property_value \div 10)
         IN <<Recommendation(
                "property_insurance", product, premium, product.coverage,
                IF data.property_value >= 200000 THEN "required" ELSE "recommended",
                IF premium * 10 <= profile.monthly_budget * 3 THEN 80 ELSE 60)>>

\* _recommend_auto_insurance
RecommendAuto(data, profile) ==
    IF data.age < 16 THEN <<>>
    ELSE IF profile.segment \in {"young_professional", "family_builder",
                                 "established_family", "high_net_worth"}
    THEN LET product ==
               IF profile.affordability_level \in {"luxury", "premium"}
               THEN product_catalog.auto_insurance.comprehensive
               ELSE product_catalog.auto_insurance.liability
         IN <<Recommendation(
                "auto_insurance", product,
                AdjustedPremium(product.base_premium, data.age, data),
                product.coverage, "required", 70)>>
    ELSE <<>>

\* the sort key of recommendations.sort(..., reverse=True)
SortKey(rec) ==
    ((IF rec.priority = "critical" THEN 4
      ELSE IF rec.priority = "required" THEN 3
      ELSE IF rec.priority = "recommended" THEN 2 ELSE 1) * 1000)
    + rec.confidence_score

\* list.sort(reverse=True): descending by key, equal keys in their old order
RECURSIVE SortedDescending(_)
SortedDescending(recs) ==
    IF recs = <<>> THEN <<>>
    ELSE LET top == CHOOSE i \in 1..Len(recs) :
                      /\ \A j \in 1..Len(recs) : SortKey(recs[j]) <= SortKey(recs[i])
                      /\ \A j \in 1..(i - 1) : SortKey(recs[j]) < SortKey(recs[i])
         IN <<recs[top]>>
            \o SortedDescending(SubSeq(recs, 1, top - 1)
                                \o SubSeq(recs, top + 1, Len(recs)))

\* the four recommendations in the order they are appended
ProductRecommendationsUnsorted(data, profile) ==
    RecommendHealth(data, profile) \o RecommendLife(data, profile)
    \o RecommendProperty(data, profile) \o RecommendAuto(data, profile)

\* _generate_product_recommendations
ProductRecommendations(data, profile) ==
    SortedDescending(RecommendHealth(data, profile) \o RecommendLife(data, profile)
                     \o RecommendProperty(data, profile)
                     \o RecommendAuto(data, profile))

\* the StaffGuidance of _create_staff_guidance: each text is the list of the
\* values formatted into it
GuidancePackage(profile, recommendations, data) ==
    LET none == recommendations = <<>>
        first == recommendations[1]
    IN  [customer_profile |-> profile,
         product_recommendations |-> recommendations,
         conversation_starters |->
            << <<"lifestyle", profile.segment>>,
               <<"budget", profile.monthly_budget>>,
               <<"goals", SubSeq(profile.key_motivators, 1,
                                 Min2(2, Len(profile.key_motivators)))>> >>,
         objection_handling |->
            (  "Too expensive" :>
                 (IF none THEN <<"basic plan", "a low monthly rate">>
                  ELSE <<first.product_name, first.monthly_premium>>)
            @@ "Don't need insurance" :>
                 <<profile.segment, profile.key_motivators[1]>>
            @@ "Need to think about it" :> <<profile.risk_profile>>
            @@ "Have existing coverage" :> <<>> ),
         next_best_actions |->
            << IF none THEN "recommended plan" ELSE first.product_name,
               IF none THEN "key benefits" ELSE first.product_type,
               "Offer to calculate exact premium with additional details",
               IF profile.segment \in {"family_builder", "established_family"}
               THEN "Schedule follow-up appointment for family consultation"
               ELSE "Provide digital enrollment options" >>]

\* _create_staff_guidance reading recommendations[0] without the
\* "if recommendations" guards
StaffGuidanceUnguarded(profile, recommendations, data) ==
    IF recommendations = <<>>
    THEN Raise("IndexError: list index out of range")
    ELSE Value(GuidancePackage(profile, recommendations, data))

\* _create_staff_guidance
StaffGuidance(profile, recommendations, data) ==
    Value(GuidancePackage(profile, recommendations, data))

\* analyze_customer_data: the guidance, or the exception it re-raises
AnalyzeCustomerData(customer_data) ==
    LET profile == CustomerProfile(customer_data)
    IN IF profile.raised THEN Raise(profile.exc)
       ELSE StaffGuidance(profile.value,
                          ProductRecommendations(customer_data, profile.value),
                          customer_data)

\* most medical conditions a customer reports
MaxConditions == 4

\* a customer_data dictionary holding only some keys: every other key reads
\* as the default its data.get(...) names
DefaultCustomer ==
    [age |-> 30, annual_income |-> 50000, debt_to_income_ratio |-> 30,
     medical_conditions |-> 0, smoking |-> FALSE,
     drinking_frequency |-> "never", exercise_frequency |-> "moderate",
     hasFloodRisk |-> "none", earthquakeRisk |-> "none",
     family_members |-> 0, existing_insurance |-> <<>>,
     property_value |-> 0, property_type |-> ""]

HazardLevels == {"none", "low", "moderate", "high"}

analyze_customer_data ==
    /\ request = Idle
    /\ tables' = tables
    /\ UNCHANGED <<failed, inflight>>
    /\ \E age \in {15, 28, 35, 50, 60, 72},
          annual_income \in {28000, 50000, 90000, 160000, 200000},
          debt_to_income_ratio \in {10, 25, 35, 45},
          family_members \in 0..2,
          existing_insurance \in {<<>>, <<"health">>},
          property_value \in {0, 300000, 600000},
          medical_conditions \in {0, MaxConditions},
          smoking \in BOOLEAN :
         LET customer_data ==
               [DefaultCustomer EXCEPT
                  !.age = age, !.annual_income = annual_income,
                  !.debt_to_income_ratio = debt_to_income_ratio,
                  !.family_members = family_members,
                  !.existing_insurance = existing_insurance,
                  !.property_value = property_value,
                  !.property_type = IF property_value > 0 THEN "house" ELSE "",
                  !.medical_conditions = medical_conditions,
                  !.smoking = smoking]
         IN /\ request' = [op |-> "analyze_customer_data",
                           customer_data |-> customer_data]
            /\ response' = Outcome(AnalyzeCustomerData(customer_data))

\* a direct call of _determine_customer_segment
determine_customer_segment ==
    /\ request = Idle
    /\ tables' = tables
    /\ UNCHANGED <<failed, inflight>>
    /\ \E age \in {18, 28, 30, 31, 45, 46, 55, 56, 65, 66},
          annual_income \in {28000, 39999, 50000, 200000},
          debt_to_income_ratio \in {30, 40, 45},
          family_members \in 0..1,
          property_value \in {0, 300000, 1000000} :
         LET customer_data ==
               [DefaultCustomer EXCEPT
                  !.age = age, !.annual_income = annual_income,
                  !.debt_to_income_ratio = debt_to_income_ratio,
                  !.family_members = family_members,
                  !.property_value = property_value]
         IN /\ request' = [op |-> "determine_customer_segment",
                           customer_data |-> customer_data]
            /\ response' = Returned([segment |->
                               CustomerSegmentOf(age, annual_income, customer_data)])

\* a direct call of _assess_risk_profile
assess_risk_profile ==
    /\ request = Idle
    /\ tables' = tables
    /\ UNCHANGED <<failed, inflight>>
    /\ \E medical_conditions \in 0..MaxConditions, smoking \in BOOLEAN,
          drinking_frequency \in {"never", "occasionally", "regularly", "heavy"},
          exercise_frequency \in {"never", "light", "moderate"},
          hasFloodRisk \in HazardLevels, earthquakeRisk \in HazardLevels :
         LET customer_data ==
               [DefaultCustomer EXCEPT
                  !.medical_conditions = medical_conditions,
                  !.smoking = smoking,
                  !.drinking_frequency = drinking_frequency,
                  !.exercise_frequency = exercise_frequency,
                  !.hasFloodRisk = hasFloodRisk,
                  !.earthquakeRisk = earthquakeRisk]
         IN /\ request' = [op |-> "assess_risk_profile",
                           customer_data |-> customer_data]
            /\ response' = Returned([risk_profile |-> RiskProfileOf(customer_data)])

-----------------------------------------------------------------------------
(* simple_server.py: GET /exchange-rates *)

get_exchange_rates ==
    /\ request = Idle
    /\ tables' = tables
    /\ UNCHANGED <<failed, inflight>>
    /\ request' = [op |-> "get_exchange_rates"]
    /\ response' = HttpResponse(200, <<>>, [exchange_rates |-> EXCHANGE_RATES])

-----------------------------------------------------------------------------
(* langchain_integration.py: AIHealthCopilot *)

\* the module is imported, AIHealthCopilot() is built and one of its
\* enhanced_* methods is awaited. Without LangChain the guarded import leaves
\* BaseCallbackHandler unbound and the class statement that derives from it
\* raises; fault is what fails with LangChain installed: "init" the
\* construction of HealthAnalysisChain, "llm" the call of the model
EnhancedCall(method, langchain_installed, api_key, fault) ==
    IF ~langchain_installed
    THEN Raise("NameError: name 'BaseCallbackHandler' is not defined")
    ELSE LET ai_enabled == api_key
             ai_chain == ai_enabled /\ fault # "init"
         IN IF ai_chain
            \* the chain's own except clause answers with its _fallback_*
            THEN Value([method |-> method,
                        answer |-> IF fault = "llm" THEN "fallback" ELSE "ai"])
            \* self.ai_chain is None
            ELSE Value([method |-> method, answer |-> "unavailable"])

enhanced_call ==
    /\ request = Idle
    /\ tables' = tables
    /\ UNCHANGED <<failed, inflight>>
    /\ \E method \in {"enhanced_health_analysis", "enhanced_wellness_plan",
                     "enhanced_chat"},
          langchain_installed \in BOOLEAN, api_key \in BOOLEAN,
          fault \in {NoFault, "init", "llm"} :
         /\ request' = [op |-> "enhanced_call", method |-> method,
                        langchain_installed |-> langchain_installed,
                        api_key |-> api_key, fault |-> fault]
         /\ response' = Outcome(EnhancedCall(method, langchain_installed,
                                             api_key, fault))

-----------------------------------------------------------------------------
(* api_server.py: POST /quick-bmi; insurance_api.py: POST /calculate-bmi *)

\* quick_bmi_check: the HTTPException(400) is raised inside the try block and
\* `except Exception` turns it, like every other exception, into a 500; the
\* category is taken from the rounded BMI
QuickBmi(weight, height, fault) ==
    IF weight <= 0 \/ height <= 0
    THEN HttpResponse(500, <<"Error calculating BMI: ",
                             "400: Weight and height must be positive values">>,
                      NoResult)
    ELSE IF fault # NoFault
    THEN HttpResponse(500, <<"Error calculating BMI: ", fault>>, NoResult)
    ELSE LET bmi == calculate_bmi(weight, height)
         IN HttpResponse(200, <<>>,
                [bmi |-> bmi,
                 category |-> IF bmi < 185 THEN "Underweight"
                              ELSE IF bmi < 250 THEN "Normal weight"
                              ELSE IF bmi < 300 THEN "Overweight"
                              ELSE "Obese"])

\* calculate_bmi of insurance_api: the same except clause; the category is
\* taken from the unrounded BMI (bmi < t/10 as weight * 100000 < t * height^2)
\* and the BMI is rounded in the response
CalculateBmi(height, weight, fault) ==
    IF height <= 0 \/ weight <= 0
    THEN HttpResponse(500, <<"Error calculating BMI: ",
                             "400: Height and weight must be positive values">>,
                      NoResult)
    ELSE IF fault # NoFault
    THEN HttpResponse(500, <<"Error calculating BMI: ", fault>>, NoResult)
    ELSE LET below(t) == weight * 100000 < t * height * height
         IN HttpResponse(200, <<>>,
                [bmi |-> RoundDiv(weight * 100000, height * height),
                 category |-> IF below(185) THEN "Underweight"
                              ELSE IF below(250) THEN "Normal weight"
                              ELSE IF below(300) THEN "Overweight"
                              ELSE "Obese"])

quick_bmi_check ==
    /\ request = Idle
    /\ tables' = tables
    /\ UNCHANGED <<failed, inflight>>
    /\ \E weight \in (-1)..MaxWeight, height \in {-1, 0, 171, 175},
          fault \in Faults :
         /\ request' = [op |-> "quick_bmi_check", weight |-> weight,
                        height |-> height, fault |-> fault]
         /\ response' = QuickBmi(weight, height, fault)

post_calculate_bmi ==
    /\ request = Idle
    /\ tables' = tables
    /\ UNCHANGED <<failed, inflight>>
    /\ \E weight \in (-1)..MaxWeight, height \in {-1, 0, 171, 175},
          fault \in Faults :
         /\ request' = [op |-> "post_calculate_bmi", weight |-> weight,
                        height |-> height, fault |-> fault]
         /\ response' = CalculateBmi(height, weight, fault)

-----------------------------------------------------------------------------
(* insurance_copilot.py: the calculators and InsuranceRecommendationEngine *)
(* premiums, coverage and deductibles in cents; inputs in dollars           *)

\* HealthInsuranceCalculator.generate_health_recommendation, with
\* assess_health_risk; risk_points counted in halves (a family history
\* entry counts 0.5), each premium factor applied in tenths
HealthRecommendation(health_profile, financial_profile) ==
    LET h2 == health_profile.height * health_profile.height
        \* HealthProfile.__post_init__: bmi is 0 when height is not positive
        bmi_over(t) == health_profile.height > 0
                          /\ health_profile.weight * 10000 > t * h2
        bmi_under(t) == health_profile.height <= 0
                           \/ health_profile.weight * 100000 < t * h2
        conditions == health_profile.medical_conditions
        high == Cardinality({i \in 1..Len(conditions) :
                    Lower(conditions[i]) \in
                        {"diabetes", "heart disease", "cancer", "stroke"}})
        moderate == Cardinality({i \in 1..Len(conditions) :
                        Lower(conditions[i]) \in
                            {"hypertension", "asthma", "arthritis"}})
        family == Len(health_profile.family_history)
        risk_points ==
            (IF health_profile.age > 65 THEN 6
             ELSE IF health_profile.age > 50 THEN 4
             ELSE IF health_profile.age > 35 THEN 2 ELSE 0)
            + (IF bmi_over(35) THEN 6 ELSE IF bmi_over(30) THEN 4
               ELSE IF bmi_under(185) THEN 2 ELSE 0)
            + (IF health_profile.smoking THEN 6 ELSE 0)
            + (IF health_profile.drinking THEN 2 ELSE 0)
            + (IF health_profile.exercise_frequency \in {"never", "rarely"}
               THEN 2 ELSE 0)
            + (6 * high) + (2 * moderate) + family
        factors ==
            <<IF health_profile.age > 65 THEN 25
              ELSE IF health_profile.age > 50 THEN 18
              ELSE IF health_profile.age > 35 THEN 13 ELSE 10,
              IF bmi_over(35) THEN 20 ELSE IF bmi_over(30) THEN 15
              ELSE IF bmi_under(185) THEN 12 ELSE 10,
              IF health_profile.smoking THEN 25 ELSE 10,
              IF health_profile.drinking THEN 12 ELSE 10,
              IF health_profile.exercise_frequency \in {"never", "rarely"}
              THEN 11 ELSE 10>>
            \o [i \in 1..high |-> 18] \o [i \in 1..moderate |-> 13]
            \o <<10 + family,
                 IF financial_profile.annual_income < 30000 THEN 7
                 ELSE IF financial_profile.annual_income > 100000 THEN 12
                 ELSE 10>>
        RECURSIVE Times(_, _)
        Times(premium, i) ==
            IF i > Len(factors) THEN premium
            ELSE Times(RoundDiv(premium * factors[i], 10), i + 1)
        annual_premium == Times(240000, 1)
        risk_level == IF risk_points >= 12 THEN "critical"
                      ELSE IF risk_points >= 8 THEN "high"
                      ELSE IF risk_points >= 4 THEN "moderate" ELSE "low"
        existing == {Lower(financial_profile.existing_insurance[i]) :
                        i \in 1..Len(financial_profile.existing_insurance)}
    IN [insurance_type |-> "health",
        annual_premium |-> annual_premium,
        coverage_amount |-> annual_premium * 25,
        deductible |-> Min2(annual_premium \div 2, 500000),
        risk_level |-> risk_level,
        priority |-> IF "health insurance" \notin existing
                     THEN IF risk_level \in {"high", "critical"}
                          THEN "critical" ELSE "required"
                     ELSE "recommended"]

\* PropertyInsuranceCalculator.generate_property_recommendation, with
\* assess_property_risk: <<>> for None, else the recommendation; premium_rate
\* in ten-thousandths; location stands for the high-risk area it names
PropertyRecommendation(property_profile, financial_profile) ==
    IF property_profile.property_value <= 0 THEN <<>>
    ELSE
      LET security_score == Len(property_profile.security_features)
          high_risk_area == property_profile.location
                               \in {"florida", "california", "texas", "louisiana"}
          risk_points ==
              (IF property_profile.year_built < 1950 THEN 3
               ELSE IF property_profile.year_built < 1980 THEN 2
               ELSE IF property_profile.year_built < 2000 THEN 1 ELSE 0)
              + (IF property_profile.previous_claims THEN 2 ELSE 0)
              - (IF security_score >= 4 THEN 1 ELSE 0)
              + (IF property_profile.property_type
                       \in {"mobile-home", "manufactured"} THEN 2
                 ELSE IF property_profile.property_type = "condo" THEN -1
                 ELSE 0)
              + (IF high_risk_area THEN 2 ELSE 0)
          premium_rate ==
              30
              + (IF property_profile.year_built < 1950 THEN 40
                 ELSE IF property_profile.year_built < 1980 THEN 20
                 ELSE IF property_profile.year_built < 2000 THEN 10 ELSE 0)
              + (IF property_profile.previous_claims THEN 20 ELSE 0)
              - (IF security_score >= 4 THEN 10
                 ELSE IF security_score >= 2 THEN 5 ELSE 0)
              + (IF property_profile.property_type
                       \in {"mobile-home", "manufactured"} THEN 30
                 ELSE IF property_profile.property_type = "condo" THEN -10
                 ELSE 0)
              + (IF high_risk_area THEN 20 ELSE 0)
          annual_premium ==
              RoundDiv(property_profile.property_value * Max2(premium_rate, 20),
                       100)
          existing == {Lower(financial_profile.existing_insurance[i]) :
                          i \in 1..Len(financial_profile.existing_insurance)}
      IN <<[insurance_type |-> "property",
            annual_premium |-> annual_premium,
            coverage_amount |-> property_profile.property_value * 100,
            deductible |-> Min2(annual_premium * 2, 1000000),
            risk_level |-> IF risk_points >= 5 THEN "high"
                           ELSE IF risk_points >= 3 THEN "moderate"
                           ELSE IF risk_points <= 0 THEN "low"
                           ELSE "moderate",
            priority |-> IF property_profile.mortgage THEN "required"
                         ELSE IF "property insurance" \notin existing
                         THEN "critical" ELSE "recommended"]>>

\* LifeInsuranceCalculator.generate_life_recommendation, with
\* calculate_life_insurance_need; base_rate in ten-thousandths of a dollar
\* per 1000 of coverage
LifeRecommendation(health_profile, financial_profile) ==
    LET h2 == health_profile.height * health_profile.height
        bmi_over(t) == health_profile.height > 0
                          /\ health_profile.weight * 10000 > t * h2
        conditions == health_profile.medical_conditions
        coverage_need ==
            Max2((financial_profile.annual_income * 10)
                 + financial_profile.debt_obligations
                 + (financial_profile.dependents * 100000) + 25000
                 - financial_profile.savings, 100000)
        aged == Max2(10000 + ((health_profile.age - 30) * 500), 5000)
        smoked == IF health_profile.smoking THEN aged * 3 ELSE aged
        weighed == IF bmi_over(35) THEN smoked * 2
                   ELSE IF bmi_over(30) THEN (smoked * 3) \div 2 ELSE smoked
        base_rate ==
            IF \E i \in 1..Len(conditions) :
                   Lower(conditions[i]) \in {"diabetes", "heart disease", "cancer"}
            THEN (weighed * 5) \div 2 ELSE weighed
    IN [insurance_type |-> "life",
        annual_premium |-> BigMulDiv(coverage_need, base_rate, 100000),
        coverage_amount |-> coverage_need * 100,
        deductible |-> 0,
        risk_level |-> IF health_profile.age > 60 \/ health_profile.smoking
                          \/ conditions # <<>> THEN "high"
                       ELSE IF health_profile.age > 45 \/ bmi_over(30)
                       THEN "moderate" ELSE "low",
        priority |-> IF financial_profile.dependents > 0 THEN "critical"
                     ELSE IF financial_profile.annual_income > 50000
                     THEN "required" ELSE "recommended"]

\* the list sorted by recommendations.sort(key=priority_order[...]) leaving
\* equal priorities in the order of the list
ComprehensiveRecommendationsUnsorted(health_profile, property_profile, financial_profile) ==
    <<HealthRecommendation(health_profile, financial_profile)>>
    \o PropertyRecommendation(property_profile, financial_profile)
    \o <<LifeRecommendation(health_profile, financial_profile)>>

\* InsuranceRecommendationEngine.generate_comprehensive_recommendations: the
\* stable sort by priority of health, property (if any) and life
ComprehensiveRecommendations(health_profile, property_profile, financial_profile) ==
    LET recommendations ==
            <<HealthRecommendation(health_profile, financial_profile)>>
            \o PropertyRecommendation(property_profile, financial_profile)
            \o <<LifeRecommendation(health_profile, financial_profile)>>
        of(priority) == SelectSeq(recommendations,
                                  LAMBDA rec : rec.priority = priority)
    IN of("critical") \o of("required") \o of("recommended") \o of("optional")

\* InsuranceRecommendationEngine.calculate_total_premium
TotalPremium(recommendations) ==
    LET RECURSIVE Sum(_, _)
        Sum(field, i) ==
            IF i > Len(recommendations) THEN 0
            ELSE (IF field = "coverage" THEN recommendations[i].coverage_amount
                  ELSE IF field = "premium"
                          \/ recommendations[i].priority = field
                  THEN recommendations[i].annual_premium ELSE 0)
                 + Sum(field, i + 1)
        count(priority) ==
            Cardinality({i \in 1..Len(recommendations) :
                            recommendations[i].priority = priority})
    IN [total_annual_premium |-> Sum("premium", 1),
        total_coverage |-> Sum("coverage", 1),
        monthly_premium |-> RoundDiv(Sum("premium", 1), 12),
        critical_recommendations |-> count("critical"),
        required_recommendations |-> count("required"),
        critical_premium |-> Sum("critical", 1),
        required_premium |-> Sum("required", 1)]

\* the engine is called directly: the recommendations and their summary
generate_comprehensive_recommendations ==
    /\ request = Idle
    /\ tables' = tables
    /\ UNCHANGED <<failed, inflight>>
    /\ \E age \in {30, 55, 70}, weight \in {50, 70, 110},
          smoking \in BOOLEAN,
          medical_conditions \in {<<>>, <<"Diabetes">>, <<"asthma", "cancer">>},
          property_value \in {-1, 0, 200000},
          year_built \in {1940, 2005}, mortgage \in BOOLEAN,
          annual_income \in {25000, 60000, 120000}, dependents \in {0, 2},
          existing_insurance \in {<<>>, <<"Health Insurance">>,
                                  <<"property insurance", "health insurance">>} :
         LET health_profile ==
                 [age |-> age, height |-> 170, weight |-> weight,
                  smoking |-> smoking, drinking |-> FALSE,
                  exercise_frequency |-> "sometimes",
                  medical_conditions |-> medical_conditions,
                  family_history |-> <<>>]
             property_profile ==
                 [property_type |-> "single-family",
                  property_value |-> property_value, location |-> "florida",
                  year_built |-> year_built, security_features |-> <<>>,
                  previous_claims |-> FALSE, mortgage |-> mortgage]
             financial_profile ==
                 [annual_income |-> annual_income, dependents |-> dependents,
                  existing_insurance |-> existing_insurance,
                  savings |-> 10000, debt_obligations |-> 0]
             recommendations ==
                 ComprehensiveRecommendations(health_profile, property_profile,
                                              financial_profile)
         IN /\ request' = [op |-> "generate_comprehensive_recommendations",
                           health_profile |-> health_profile,
                           property_profile |-> property_profile,
                           financial_profile |-> financial_profile]
            /\ response' = Returned([recommendations |-> recommendations,
                                     summary |-> TotalPremium(recommendations)])

-----------------------------------------------------------------------------
(* api_server.py: GET /recommendations/{bmi_category}                      *)
(* insurance_api.py: POST /quick-quote                                      *)

\* the handler with the HTTPException caught by except Exception
RecommendationsByCategoryWithoutReraise(bmi_category, fault) ==
    IF fault # NoFault
    THEN HttpResponse(500, <<"Error retrieving recommendations: ", fault>>,
                      NoResult)
    ELSE HttpResponse(500, <<"Error retrieving recommendations: ",
                             "400: Invalid BMI category">>, NoResult)

\* get_recommendations_by_category: the HTTPException raised in the try block
\* is re-raised by except HTTPException and answered by
\* http_exception_handler with its own status code
RecommendationsByCategory(bmi_category, fault) ==
    IF fault # NoFault
    THEN HttpResponse(500, <<"Error retrieving recommendations: ", fault>>,
                      NoResult)
    ELSE LET count == IF Lower(bmi_category) = "obese" THEN 3
                      ELSE IF Lower(bmi_category) = "overweight" THEN 2
                      ELSE IF Lower(bmi_category) \in {"normal", "underweight"}
                      THEN 1 ELSE 0
         IN IF count = 0
            THEN HttpResponse(400, <<"Invalid BMI category">>, NoResult)
            ELSE HttpResponse(200, <<>>,
                     [bmi_category |-> bmi_category, count |-> count,
                      success |-> TRUE])

get_recommendations_by_category ==
    /\ request = Idle
    /\ tables' = tables
    /\ UNCHANGED <<failed, inflight>>
    /\ \E bmi_category \in {"obese", "Obese", "overweight", "OVERWEIGHT",
                            "normal", "underweight", "fit", ""},
          fault \in Faults :
         /\ request' = [op |-> "get_recommendations_by_category",
                        bmi_category |-> bmi_category, fault |-> fault]
         /\ response' = RecommendationsByCategory(bmi_category, fault)

\* quick_quote: an optional field is <<>> when absent, else <<value>>; the
\* fault is raised by the first statement of the try block
QuickQuote(req, fault) ==
    LET given(field) == field # <<>> /\ field[1] # 0
        quote(recommendation) ==
            HttpResponse(200, <<>>,
                [insurance_type |-> recommendation.insurance_type,
                 estimated_annual_premium |-> recommendation.annual_premium,
                 estimated_monthly_premium |->
                     RoundDiv(recommendation.annual_premium, 12),
                 coverage_amount |-> recommendation.coverage_amount,
                 risk_level |-> recommendation.risk_level])
        health_profile(age) ==
            [age |-> age, height |-> 170, weight |-> 70, smoking |-> FALSE,
             drinking |-> FALSE, exercise_frequency |-> "sometimes",
             medical_conditions |-> req.health_conditions,
             family_history |-> <<>>]
        financial_profile(annual_income, savings) ==
            [annual_income |-> annual_income, dependents |-> 0,
             existing_insurance |-> <<>>, savings |-> savings,
             debt_obligations |-> 0]
    IN IF fault # NoFault
       THEN HttpResponse(500, <<"Error generating quote: ", fault>>, NoResult)
       ELSE IF Lower(req.insurance_type) = "health"
       THEN IF ~given(req.age)
            THEN HttpResponse(400, <<"Age required for health insurance quote">>,
                              NoResult)
            ELSE quote(HealthRecommendation(health_profile(req.age[1]),
                                            financial_profile(50000, 10000)))
       ELSE IF Lower(req.insurance_type) = "property"
       THEN IF ~given(req.property_value)
            THEN HttpResponse(400,
                     <<"Property value required for property insurance quote">>,
                     NoResult)
            ELSE LET recommendation ==
                         PropertyRecommendation(
                             [property_type |-> "single-family",
                              property_value |-> req.property_value[1],
                              location |-> "General Location",
                              year_built |-> 2000, security_features |-> <<>>,
                              previous_claims |-> FALSE, mortgage |-> TRUE],
                             financial_profile(50000, 10000))
                 IN IF recommendation # <<>>
                    THEN quote(recommendation[1])
                    ELSE HttpResponse(400,
                             <<"Unable to generate property quote">>, NoResult)
       ELSE IF Lower(req.insurance_type) = "life"
       THEN IF ~given(req.annual_income)
            THEN HttpResponse(400,
                     <<"Annual income required for life insurance quote">>,
                     NoResult)
            ELSE quote(LifeRecommendation(
                           health_profile(IF given(req.age) THEN req.age[1]
                                          ELSE 35),
                           financial_profile(req.annual_income[1],
                                             req.annual_income[1] \div 10)))
       ELSE HttpResponse(400,
                <<"Invalid insurance type. Use: health, property, or life">>,
                NoResult)

quick_quote ==
    /\ request = Idle
    /\ tables' = tables
    /\ UNCHANGED <<failed, inflight>>
    /\ \E insurance_type \in {"health", "Health", "property", "life", "LIFE",
                              "auto"},
          age \in {<<>>, <<0>>, <<40>>, <<70>>},
          property_value \in {<<>>, <<0>>, <<-1>>, <<200000>>},
          annual_income \in {<<>>, <<0>>, <<60000>>},
          health_conditions \in {<<>>, <<"Diabetes">>},
          fault \in Faults :
         LET req == [insurance_type |-> insurance_type, age |-> age,
                     property_value |-> property_value,
                     annual_income |-> annual_income,
                     health_conditions |-> health_conditions]
         IN /\ request' = [op |-> "quick_quote", fault |-> fault] @@ req
            /\ response' = QuickQuote(req, fault)

-----------------------------------------------------------------------------
(* copilot.py: WellnessPlanGenerator; api_server.py: GET /wellness-plan     *)
(* bmi in tenths, a duration "n weeks" as the number n                      *)

\* the phases chosen by the risk level alone
GeneratePhasesByRiskOnly(bmi, risk_level) ==
    IF risk_level = "high"
    THEN <<[phase |-> 1, duration |-> 4, focus |-> "Foundation & Medical Clearance"],
           [phase |-> 2, duration |-> 4, focus |-> "Progressive Improvement"],
           [phase |-> 3, duration |-> 4, focus |-> "Optimization & Maintenance"]>>
    ELSE <<[phase |-> 1, duration |-> 6, focus |-> "Health Optimization"],
           [phase |-> 2, duration |-> 6, focus |-> "Maintenance & Growth"]>>

\* WellnessPlanGenerator._generate_phases
GeneratePhases(bmi, risk_level) ==
    IF bmi >= 300 \/ risk_level = "high"
    THEN <<[phase |-> 1, duration |-> 4, focus |-> "Foundation & Medical Clearance"],
           [phase |-> 2, duration |-> 4, focus |-> "Progressive Improvement"],
           [phase |-> 3, duration |-> 4, focus |-> "Optimization & Maintenance"]>>
    ELSE <<[phase |-> 1, duration |-> 6, focus |-> "Health Optimization"],
           [phase |-> 2, duration |-> 6, focus |-> "Maintenance & Growth"]>>

\* WellnessPlanGenerator.generate_plan with _generate_monitoring: the weight
\* to lose in tenths of a kg, the monitoring list by its length
GeneratePlan(weight, bmi, risk_level) ==
    [duration |-> 12,
     goals |-> IF bmi >= 300 THEN <<"Lose", weight, "10% body weight">>
               ELSE IF bmi >= 250 THEN <<"Lose", weight \div 2, "5% body weight">>
               ELSE <<"Maintain current weight">>,
     phases |-> GeneratePhases(bmi, risk_level),
     monitoring |-> IF risk_level \in {"high", "critical"} THEN 7
                    ELSE IF risk_level = "moderate" THEN 5 ELSE 3,
     emergency_contacts |-> <<>>]

\* get_wellness_plan: the mock metrics weigh 70 kg; every string other than
\* high and moderate is read as HealthRiskLevel.LOW
WellnessPlan(risk_level, bmi, fault) ==
    IF fault # NoFault
    THEN HttpResponse(500, <<"Error generating wellness plan: ", fault>>,
                      NoResult)
    ELSE LET risk_enum == IF Lower(risk_level) = "high" THEN "high"
                          ELSE IF Lower(risk_level) = "moderate" THEN "moderate"
                          ELSE "low"
         IN HttpResponse(200, <<>>,
                [wellness_plan |-> GeneratePlan(70, bmi, risk_enum),
                 risk_level |-> risk_level, bmi |-> bmi, success |-> TRUE])

get_wellness_plan ==
    /\ request = Idle
    /\ tables' = tables
    /\ UNCHANGED <<failed, inflight>>
    /\ \E risk_level \in {"high", "HIGH", "moderate", "Moderate", "low",
                          "critical", "unknown", ""},
          bmi \in {-10, 0, 185, 249, 250, 299, 300, 301, 450},
          fault \in Faults :
         /\ request' = [op |-> "get_wellness_plan", risk_level |-> risk_level,
                        bmi |-> bmi, fault |-> fault]
         /\ response' = WellnessPlan(risk_level, bmi, fault)

-----------------------------------------------------------------------------
(* The server *)

\* the outcome is handed to the caller; nothing of the call is kept
Deliver ==
    /\ request # Idle
    /\ request' = Idle
    /\ response' = NoResponse
    /\ failed' = (failed \/ response.outcome \in {"error", "raised"})
    /\ UNCHANGED <<tables, inflight>>

\* the tables as the import of simple_server and GlobalFinanceEngine.__init__
\* leave them
LoadedTables ==
    [COUNTRIES |-> CountriesLiteral,
     EXCHANGE_RATES |-> ExchangeRatesLiteral,
     countries_data |-> load_countries_data,
     exchange_rates |-> load_exchange_rates,
     investment_returns |-> load_investment_data]

Init ==
    /\ request = Idle
    /\ response = NoResponse
    /\ tables = LoadedTables
    /\ failed = FALSE
    /\ inflight = [c \in Connections |-> FreeConnection]

Next ==
    \/ calculate_savings_projection
    \/ get_financial_advice
    \/ calculate_country_premium
    \/ get_country_specific_policies
    \/ calculate_fire_timeline
    \/ calculate_savings_projections
    \/ generate_financial_advice
    \/ get_motivational_content
    \/ analyze_health
    \/ analyze_customer_data
    \/ determine_customer_segment
    \/ assess_risk_profile
    \/ get_exchange_rates
    \/ calculate_milestones
    \/ enhanced_call
    \/ quick_bmi_check
    \/ post_calculate_bmi
    \/ generate_comprehensive_recommendations
    \/ get_recommendations_by_category
    \/ quick_quote
    \/ get_wellness_plan
    \/ Deliver

Spec == Init /\ [][Next]_vars

\* the connections of the projection endpoint, served in any interleaving
NextConcurrent ==
    \E c \in Connections :
        \/ Accept(c)
        \/ Validate(c)
        \/ Lookup(c)
        \/ Compute(c)
        \/ Respond(c)

SpecConcurrent == Init /\ [][NextConcurrent]_vars


-----------------------------------------------------------------------------
(* Properties of the projection endpoints and of the engine *)

\* the request fields a validated projection request carries
ValidatedProjection(monthly_amount, years, country, risk_level) ==
    /\ monthly_amount > 0
    /\ years >= 1 /\ years <= 50
    /\ country \in {"US", "IN", "UK", "CA", "AU", "DE"}
    /\ risk_level \in {"conservative", "moderate", "aggressive"}

\* C1: for every validated projection request the future value computed by
\* calculate_savings_projection is at least the total contributed
\* (monthly_amount x 12 x years), so total_interest >= 0; in the engine's
\* calculate_savings_projections investment_growth.total is at least
\* simple_savings.total.
C1_FutureValueAtLeastContributed ==
    /\ ( /\ request.op = "calculate_savings_projection"
         /\ ValidatedProjection(request.monthly_amount, request.years,
                                request.country, request.risk_level)
         /\ request.fault = NoFault )
       => /\ response.status = 200
          /\ response.result.total_contributed
               = RoundDiv(request.monthly_amount * 12 * request.years * 100,
                          request.amount_per)
          /\ response.result.total_value >= response.result.total_contributed
          /\ response.result.total_interest >= 0
    /\ ( /\ request.op = "calculate_savings_projections"
         /\ ValidatedProjection(request.monthly_amount, request.years,
                                request.country_code, request.risk_level) )
       => /\ response.outcome = "returned"
          /\ response.result.simple_savings.total
               = request.monthly_amount * 12 * request.years * 100
          /\ response.result.investment_growth.total
               >= response.result.simple_savings.total

\* a fifty-year projection was answered with interest earned
C1_Witness ==
    /\ request.op = "calculate_savings_projection"
    /\ request.years = 50 /\ request.monthly_amount = 1
    /\ response.status = 200
    /\ response.result.total_interest > 0

\* C2: a /calculate-savings-projection request whose monthly_amount is <= 0,
\* whose years is < 1 or > 50, whose country is not a supported code or whose
\* risk_level is not a supported level is rejected by request validation: no
\* projection is computed or returned for it.
C2_InvalidRequestRejected ==
    ( /\ request.op = "calculate_savings_projection"
      /\ ~ValidatedProjection(request.monthly_amount, request.years,
                              request.country, request.risk_level) )
    => /\ response.status = 422
       /\ response.result = NoResult

\* a request invalid only in its amount was rejected
C2_Witness ==
    /\ request.op = "calculate_savings_projection"
    /\ request.monthly_amount <= 0
    /\ ValidatedProjection(1, request.years, request.country, request.risk_level)
    /\ request.fault = NoFault
    /\ response.status = 422

\* C3: whenever _calculate_fire_timeline returns a value other than None, the
\* value is at least 1, in the positive-return branch and in the zero-return
\* branch alike.
C3_FireTimelineAtLeastOne ==
    ( /\ request.op = "calculate_fire_timeline"
      /\ response.outcome = "returned"
      /\ ~response.result.is_none )
    => response.result.years >= 1

\* the positive-return branch answered a target already passed: the
\* logarithm is negative and one year is reported
C3_Witness ==
    /\ request.op = "calculate_fire_timeline"
    /\ request.annual_investment > 0 /\ request.annual_return > 0
    /\ request.target > 0 /\ request.current > request.target
    /\ response = Returned(Some(1))

\* C4: _calculate_fire_timeline returns None, without raising, whenever
\* annual_investment <= 0; in the positive-return branch it returns None
\* instead of raising whenever the division is by zero or the logarithm's
\* argument is not positive.
C4_FireTimelineNoneNotRaise ==
    request.op = "calculate_fire_timeline"
    => LET num == (request.target * request.annual_return)
                    + (request.annual_investment * 1000)
           den == (request.current * request.annual_return)
                    + (request.annual_investment * 1000)
       IN /\ response.outcome = "returned"
          /\ request.annual_investment <= 0 => response = Returned(None)
          /\ ( /\ request.annual_investment > 0 /\ request.annual_return > 0
               /\ (den = 0 \/ num = 0 \/ (num > 0) # (den > 0)) )
             => response = Returned(None)

\* the division of the positive-return branch was by zero and None came back
C4_Witness ==
    /\ request.op = "calculate_fire_timeline"
    /\ request.annual_investment > 0 /\ request.annual_return > 0
    /\ (request.current * request.annual_return)
         + (request.annual_investment * 1000) = 0
    /\ response = Returned(None)

\* C5: _calculate_milestones, reached through calculate_savings_projections,
\* never raises when monthly_amount <= 0: it returns a list with no entry for
\* a target whose logarithm or division is undefined.
C5_MilestonesNeverRaise ==
    ( /\ request.op = "calculate_savings_projections"
      /\ request.monthly_amount <= 0
      /\ ValidatedProjection(1, request.years, request.country_code,
                             request.risk_level) )
    => ~CalculateMilestones(
           request.monthly_amount,
           investment_returns[request.country_code][request.risk_level],
           countries_data[request.country_code]).raised

\* the engine operations that take a country code
CountryOperations ==
    {"calculate_country_premium", "generate_financial_advice",
     "calculate_savings_projections", "get_country_specific_policies",
     "get_motivational_content"}

\* C6: every engine operation that takes a country code answers a code
\* outside {US, IN, UK, CA, AU, DE} with a result; none of them raises for it.
C6_UnknownCountryFallsBack ==
    ( /\ request.op \in CountryOperations
      /\ request.country_code \notin {"US", "IN", "UK", "CA", "AU", "DE"} )
    => response.outcome = "returned"

\* C7: for a country_code that is not a supported code
\* calculate_country_premium returns exactly the result for "US" (currency
\* USD, the US multiplier, exchange rate 1.0) and does not fail; an
\* insurance_type with no multiplier entry is priced with multiplier 1.0.
C7_UnknownCountryPricedAsUS ==
    request.op = "calculate_country_premium"
    => /\ request.country_code \notin {"US", "IN", "UK", "CA", "AU", "DE"}
          => /\ response.outcome = "returned"
             /\ response = Outcome(CountryPremium(request.base_premium_usd, "US",
                                                  request.insurance_type))
             /\ response.result.currency = "USD"
             /\ response.result.usd_equivalent = response.result.amount
       /\ request.insurance_type \notin {"health", "property", "life", "auto"}
          => /\ response.outcome = "returned"
             /\ response.result.usd_equivalent = request.base_premium_usd

\* an unknown code with an unknown insurance type was priced in USD
C7_Witness ==
    /\ request.op = "calculate_country_premium"
    /\ request.country_code = "FR" /\ request.insurance_type = "pet"
    /\ request.base_premium_usd > 0
    /\ response.outcome = "returned"
    /\ response.result.amount = request.base_premium_usd

\* C8: GET /financial-advice/{country} with a country code that is not in
\* COUNTRIES is answered with HTTP 400 "Unsupported country" and never with
\* HTTP 500.
C8_UnsupportedCountryIs400 ==
    ( /\ request.op = "get_financial_advice"
      /\ request.country \notin {"US", "IN", "UK", "CA", "AU", "DE"} )
    => /\ response.status # 500
       /\ AdviceQueryValid(request)
          => /\ response.status = 400
             /\ response.detail = <<"Unsupported country">>

\* the response an endpoint gives to a request when the handler's code raises
\* an exception of the given text
EndpointResponse(req, exc) ==
    IF req.op = "calculate_savings_projection"
    THEN SavingsProjectionEndpoint(req, exc)
    ELSE IF req.op = "get_financial_advice"
    THEN FinancialAdviceEndpoint(req, exc)
    ELSE AnalyzeHealthEndpoint(req, exc)

\* C9: when an unexpected exception is raised inside an endpoint handler, the
\* error response is the same whatever the exception's message is.
C9_ErrorResponseHidesMessage ==
    ( /\ request.op \in {"calculate_savings_projection", "get_financial_advice",
                         "analyze_health"}
      /\ request.fault # NoFault
      /\ response.status = 500 )
    => \A exc \in ExcMessages : EndpointResponse(request, exc) = response

\* C10: for health metrics whose BMI is greater than 30 the assessment of
\* analyze_health has risk level HIGH, whatever the age, gender, activity
\* level and medical conditions are.
C10_ObeseIsHighRisk ==
    ( /\ request.op = "analyze_health"
      /\ response.status = 200
      /\ response.result.bmi > 300 )
    => response.result.risk_level = "high"


-----------------------------------------------------------------------------
(* Properties of the business intelligence engine *)

\* C11: analyze_customer_data returns a StaffGuidance, without raising, for
\* every customer whose affordability level is BASIC (annual income < 40000
\* or debt-to-income ratio >= 0.4); the profile reports affordability "basic"
\* and a monthly budget that is a fixed fraction of the monthly income.
C11_BasicCustomerGetsGuidance ==
    ( /\ request.op = "analyze_customer_data"
      /\ \/ request.customer_data.annual_income < 40000
         \/ request.customer_data.debt_to_income_ratio >= 40 )
    => /\ response.outcome = "returned"
       /\ response.result.customer_profile.affordability_level = "basic"
       /\ \E rate \in 1..100 :
            response.result.customer_profile.monthly_budget
              = RoundDiv(request.customer_data.annual_income * rate, 12)

\* C12: a customer aged 30 or younger with annual income below 40000,
\* debt-to-income ratio of 0.4 or more, no dependants and no property is
\* assigned the segment budget_conscious by _determine_customer_segment.
C12_BudgetCustomerSegment ==
    ( /\ request.op = "determine_customer_segment"
      /\ request.customer_data.age <= 30
      /\ request.customer_data.annual_income < 40000
      /\ request.customer_data.debt_to_income_ratio >= 40
      /\ request.customer_data.family_members = 0
      /\ request.customer_data.property_value = 0 )
    => response.result.segment = "budget_conscious"

\* the order of the risk profiles, of drinking and (reversed) of exercise
RiskRank(level) ==
    IF level \in {"high_risk", "high", "heavy"} THEN 3
    ELSE IF level \in {"aggressive", "moderate", "regularly"} THEN 2
    ELSE IF level \in {"low", "occasionally", "light"} THEN 1
    ELSE 0

\* the customers that differ from data by one added risk factor
OneFactorMore(data) ==
    { [data EXCEPT !.medical_conditions = @ + 1],
      [data EXCEPT !.smoking = TRUE] }
    \cup { [data EXCEPT !.drinking_frequency = d] :
             d \in { x \in {"occasionally", "regularly", "heavy"} :
                       RiskRank(x) > RiskRank(data.drinking_frequency) } }
    \cup { [data EXCEPT !.exercise_frequency = e] :
             e \in { x \in {"never", "light"} :
                       data.exercise_frequency = "moderate"
                       \/ (x = "never" /\ data.exercise_frequency = "light") } }
    \cup { [data EXCEPT !.hasFloodRisk = h] :
             h \in { x \in HazardLevels : RiskRank(x) > RiskRank(data.hasFloodRisk) } }
    \cup { [data EXCEPT !.earthquakeRisk = h] :
             h \in { x \in HazardLevels : RiskRank(x) > RiskRank(data.earthquakeRisk) } }

\* C13: _assess_risk_profile classifies by the total score 2 x (number of
\* medical conditions) + lifestyle score + property-risk score: HIGH_RISK
\* exactly when the total is >= 15, AGGRESSIVE for 10..14, MODERATE for 5..9,
\* CONSERVATIVE for 0..4; adding a risk factor never lowers the profile.
C13_RiskProfileByTotalScore ==
    request.op = "assess_risk_profile"
    => LET data == request.customer_data
           total == (2 * data.medical_conditions) + LifestyleRiskScore(data)
                    + PropertyRisks(data)
           profile == response.result.risk_profile
       IN /\ (profile = "high_risk") <=> (total >= 15)
          /\ (profile = "aggressive") <=> (total >= 10 /\ total <= 14)
          /\ (profile = "moderate") <=> (total >= 5 /\ total <= 9)
          /\ (profile = "conservative") <=> (total >= 0 /\ total <= 4)
          /\ \A worse \in OneFactorMore(data) :
               RiskRank(RiskProfileOf(worse)) >= RiskRank(profile)

\* a customer whose total score is exactly 15 was classified HIGH_RISK
C13_Witness ==
    /\ request.op = "assess_risk_profile"
    /\ (2 * request.customer_data.medical_conditions)
         + LifestyleRiskScore(request.customer_data)
         + PropertyRisks(request.customer_data) = 15
    /\ response.result.risk_profile = "high_risk"

\* C14: for every customer whose profile and recommendations are computed,
\* including one for whom no product is recommended, _create_staff_guidance
\* does not raise and the StaffGuidance has at least 3 conversation starters,
\* an objection_handling map with the keys "Too expensive" and "Don't need
\* insurance", and at least 3 next best actions.
C14_StaffGuidanceComplete ==
    ( /\ request.op = "analyze_customer_data"
      /\ ~CustomerProfile(request.customer_data).raised )
    => /\ response.outcome = "returned"
       /\ Len(response.result.conversation_starters) >= 3
       /\ {"Too expensive", "Don't need insurance"}
            \subseteq DOMAIN response.result.objection_handling
       /\ Len(response.result.next_best_actions) >= 3

\* guidance was produced for a customer with no recommended product
C14_Witness ==
    /\ request.op = "analyze_customer_data"
    /\ response.outcome = "returned"
    /\ request.customer_data.age >= 18
    /\ response.result.product_recommendations = <<>>
    /\ response.result.objection_handling["Too expensive"][1] = "basic plan"
    /\ Len(response.result.next_best_actions) >= 3

-----------------------------------------------------------------------------
(* Properties of the static tables and of concurrent service *)

\* C15: after any sequence of requests, failing ones included, COUNTRIES and
\* EXCHANGE_RATES of simple_server and countries_data, exchange_rates and
\* investment_returns of the engine hold the values they had after
\* initialisation, so a request is answered from the same tables as in a
\* fresh process
C15_TablesUnchanged ==
    /\ tables = LoadedTables
    /\ request.op = "get_exchange_rates"
           => response = HttpResponse(200, <<>>,
                                      [exchange_rates |-> ExchangeRatesLiteral])

\* a projection request is served after a request that failed
C15_Witness ==
    /\ failed
    /\ request.op = "calculate_savings_projection"
    /\ response.status = 200
    /\ tables = LoadedTables

\* C16: in every interleaving of concurrently served projection requests the
\* response of each request is the one it gets when it is served alone: a
\* function of its own monthly_amount, years, country and risk_level
C16_ConcurrentProjectionAsAlone ==
    \A c \in Connections :
        inflight[c].pc = "respond"
            => inflight[c].response =
                   SavingsProjectionEndpoint(inflight[c].request,
                                             inflight[c].request.fault)

\* a projection is answered while the handler of another request, for another
\* country and amount, is between its lookup and its computation
C16_Witness ==
    \E c, d \in Connections :
        /\ inflight[c].pc = "respond"
        /\ inflight[c].response.status = 200
        /\ inflight[d].pc = "compute"
        /\ inflight[d].request.country # inflight[c].request.country

-----------------------------------------------------------------------------
(* Properties of the milestones *)

\* the milestones of an answered projection request
AnsweredMilestones ==
    IF request.op = "calculate_savings_projection" /\ response.status = 200
    THEN response.result.milestones
    ELSE <<>>

\* the list holds exactly the years of {5, 10, 15, 20, 25, 30} up to years, in
\* ascending order, and no value is below its contributed amount
MilestoneYearsExact(ms, years) ==
    /\ { ms[i].year : i \in 1..Len(ms) }
           = { y \in {5, 10, 15, 20, 25, 30} : y <= years }
    /\ \A i, j \in 1..Len(ms) : i < j => ms[i].year < ms[j].year
    /\ \A i \in 1..Len(ms) : ms[i].value >= ms[i].contributed

\* C17 as stated: the milestones of a projection response are exactly the
\* years of {5, 10, 15, 20, 25, 30} that are <= request.years, ascending, each
\* value is at least its contributed amount, and the value strictly increases
\* with the year
C17_MilestoneValuesStrictlyIncrease ==
    request.op = "calculate_savings_projection" /\ response.status = 200
        => /\ MilestoneYearsExact(AnsweredMilestones, request.years)
           /\ \A i, j \in 1..Len(AnsweredMilestones) :
                  i < j => AnsweredMilestones[i].value
                               < AnsweredMilestones[j].value

\* C17, amended: the milestones are exactly the years of {5, 10, 15, 20, 25,
\* 30} that are <= request.years, ascending, each value is at least its
\* contributed amount, the value never decreases with the year, and it
\* strictly increases when monthly_amount is at least one cent
C17_MilestoneValuesIncrease ==
    request.op = "calculate_savings_projection" /\ response.status = 200
        => /\ MilestoneYearsExact(AnsweredMilestones, request.years)
           /\ \A i, j \in 1..Len(AnsweredMilestones) :
                  i < j =>
                    /\ AnsweredMilestones[i].value
                           <= AnsweredMilestones[j].value
                    /\ request.monthly_amount * 100 >= request.amount_per
                           => AnsweredMilestones[i].value
                                  < AnsweredMilestones[j].value

\* a thirty-year projection of a monthly amount below one cent was answered
\* with six milestones, two of them of the same rounded value
C17_Witness ==
    /\ request.op = "calculate_savings_projection"
    /\ response.status = 200
    /\ request.years = 30
    /\ request.monthly_amount * 100 < request.amount_per
    /\ Len(response.result.milestones) = 6
    /\ response.result.milestones[1].value = response.result.milestones[2].value

\* the milestones of a call of _calculate_milestones with a positive monthly
\* amount and a non-negative return
ReturnedMilestones ==
    IF /\ request.op = "calculate_milestones"
       /\ request.monthly_amount > 0 /\ request.annual_return >= 0
       /\ response.outcome = "returned"
    THEN response.result
    ELSE <<>>

\* C18: for monthly_amount > 0 and annual_return >= 0 the entries of
\* _calculate_milestones are in increasing order of target amount, and a
\* larger target never has a smaller years value than a smaller target
C18_MilestoneYearsIncreaseWithAmount ==
    ( /\ request.op = "calculate_milestones"
      /\ request.monthly_amount > 0 /\ request.annual_return >= 0 )
        => /\ response.outcome = "returned"
           /\ \A i, j \in 1..Len(ReturnedMilestones) :
                  i < j => /\ ReturnedMilestones[i].amount
                                  < ReturnedMilestones[j].amount
                           /\ ReturnedMilestones[i].years
                                  <= ReturnedMilestones[j].years

\* three milestones were returned, each later than the one before
C18_Witness ==
    /\ Len(ReturnedMilestones) = 3
    /\ ReturnedMilestones[1].years < ReturnedMilestones[2].years
    /\ ReturnedMilestones[2].years < ReturnedMilestones[3].years

\* whether contributions of monthly_amount reach the target within fifty
\* years: the annuity of 600 months is worth the target or more
ReachedWithinHorizon(target, monthly_amount, annual_return) ==
    FutureValue(monthly_amount, annual_return, 50 * 12) >= target * 100

\* C19: _calculate_milestones returns an entry for a target of {10000, 50000,
\* 100000, 250000, 500000, 1000000} if and only if the target is reached
\* within 50 years: no entry needs more than 50 years and no target reached
\* within 50 years is missing
C19_MilestoneReturnedIffWithinHorizon ==
    ( /\ request.op = "calculate_milestones"
      /\ request.monthly_amount > 0 /\ request.annual_return >= 0 )
        => /\ response.outcome = "returned"
           /\ \A target \in {10000, 50000, 100000, 250000, 500000, 1000000} :
                  (\E i \in 1..Len(ReturnedMilestones) :
                       ReturnedMilestones[i].amount = target)
                  <=> ReachedWithinHorizon(target, request.monthly_amount,
                                           request.annual_return)
           /\ \A i \in 1..Len(ReturnedMilestones) :
                  ReturnedMilestones[i].years <= 500

\* the first milestone was returned after more than forty-nine years and the
\* second one was left out
C19_Witness ==
    /\ Len(ReturnedMilestones) = 1
    /\ ReturnedMilestones[1].amount = 10000
    /\ ReturnedMilestones[1].years > 490

-----------------------------------------------------------------------------
(* Properties of the currency conversion *)

\* a premium of a supported country and insurance category was priced
PricedPremium ==
    /\ request.op = "calculate_country_premium"
    /\ request.country_code \in SupportedCountries
    /\ request.insurance_type \in {"health", "property", "life", "auto"}
    /\ response.outcome = "returned"

\* | amount / exchange_rate - usd_equivalent |, in 1 / (2 * exchange_rate) of
\* a cent (amounts in cents, exchange_rate in hundredths)
RoundTripError ==
    LET rate == exchange_rates[response.result.currency]
        d == (200 * response.result.amount)
                 - (2 * response.result.usd_equivalent * rate)
    IN IF d >= 0 THEN d ELSE -d

\* C20 as stated: for every supported country, insurance category and USD
\* premium in cents, the returned local amount divided by the exchange rate
\* is the returned usd_equivalent (for US the base premium) with an error of
\* at most 0.01
C20_RoundTripWithinOneCent ==
    ( /\ request.op = "calculate_country_premium"
      /\ request.country_code \in SupportedCountries
      /\ request.insurance_type \in {"health", "property", "life", "auto"} )
        => /\ response.outcome = "returned"
           /\ RoundTripError <= 2 * exchange_rates[response.result.currency]
           /\ request.country_code = "US"
                  => response.result.usd_equivalent = request.base_premium_usd

\* C20, amended: the returned local amount divided by the exchange rate is
\* the returned usd_equivalent (for US the base premium, exactly) with an
\* error of at most 0.005 + 0.005 / exchange_rate: at most 0.01 for a
\* currency whose rate is 1 or more, above 0.01 for some premiums in GBP and
\* EUR
C20_RoundTripWithinRounding ==
    ( /\ request.op = "calculate_country_premium"
      /\ request.country_code \in SupportedCountries
      /\ request.insurance_type \in {"health", "property", "life", "auto"} )
        => /\ response.outcome = "returned"
           /\ RoundTripError <= exchange_rates[response.result.currency] + 100
           /\ exchange_rates[response.result.currency] >= 100
                  => RoundTripError
                         <= 2 * exchange_rates[response.result.currency]
           /\ request.country_code = "US"
                  => /\ response.result.usd_equivalent = request.base_premium_usd
                     /\ response.result.amount = request.base_premium_usd

\* a premium in pounds was returned whose amount, divided by the rate, is
\* more than a cent away from usd_equivalent
C20_Witness ==
    /\ PricedPremium
    /\ response.result.currency = "GBP"
    /\ RoundTripError > 2 * exchange_rates[response.result.currency]

-----------------------------------------------------------------------------
(* Properties of the risk tiers *)

\* total_value of the answered projection request at another risk level
ServerTotalAt(risk_level) ==
    SavingsProjectionEndpoint([request EXCEPT !.risk_level = risk_level],
                              NoFault).result.total_value

\* investment_growth.total of the engine's projection at another risk level
EngineTotalAt(risk_level) ==
    SavingsProjections(request.monthly_amount, request.years,
                       request.country_code, risk_level)
        .value.investment_growth.total

\* C21: for every supported country, monthly_amount > 0 and years in 1..50 the
\* projected total value is ordered by risk tier, conservative <= moderate <=
\* aggressive, in simple_server and in GlobalFinanceEngine
C21_TotalValueOrderedByRisk ==
    /\ ( /\ request.op = "calculate_savings_projection"
         /\ ValidatedProjection(request.monthly_amount, request.years,
                                request.country, request.risk_level)
         /\ request.fault = NoFault )
       => /\ response.status = 200
          /\ response.result.total_value = ServerTotalAt(request.risk_level)
          /\ ServerTotalAt("conservative") <= ServerTotalAt("moderate")
          /\ ServerTotalAt("moderate") <= ServerTotalAt("aggressive")
    /\ ( /\ request.op = "calculate_savings_projections"
         /\ ValidatedProjection(request.monthly_amount, request.years,
                                request.country_code, request.risk_level) )
       => /\ response.outcome = "returned"
          /\ response.result.investment_growth.total
                = EngineTotalAt(request.risk_level)
          /\ EngineTotalAt("conservative") <= EngineTotalAt("moderate")
          /\ EngineTotalAt("moderate") <= EngineTotalAt("aggressive")

\* a moderate projection over thirty years was answered with a total strictly
\* between those of the other two tiers
C21_Witness ==
    /\ request.op = "calculate_savings_projection"
    /\ request.risk_level = "moderate" /\ request.years = 30
    /\ response.status = 200
    /\ ServerTotalAt("conservative") < response.result.total_value
    /\ response.result.total_value < ServerTotalAt("aggressive")

-----------------------------------------------------------------------------
(* Properties of the optional AI integration *)

\* C22: when LangChain is not installed the langchain_integration module still
\* loads and enhanced_health_analysis, enhanced_wellness_plan and
\* enhanced_chat of AIHealthCopilot return the rule-based fallback responses
\* instead of failing
C22_FallbackWithoutLangChain ==
    ( /\ request.op = "enhanced_call"
      /\ ~request.langchain_installed )
        => /\ response.outcome = "returned"
           /\ response.result.answer = "fallback"

-----------------------------------------------------------------------------
(* Properties of the BMI endpoints *)

\* C23: POST /quick-bmi and POST /calculate-bmi called with weight <= 0 or
\* height <= 0 respond with HTTP 400 and compute no BMI; the status for such
\* input is never 500
C23_NonPositiveBmiInputIs400 ==
    ( /\ request.op \in {"quick_bmi_check", "post_calculate_bmi"}
      /\ (request.weight <= 0 \/ request.height <= 0) )
        => /\ response.status = 400
           /\ response.result = NoResult

\* C29: for every positive weight and height POST /quick-bmi, POST
\* /calculate-bmi and BMICalculator report the same one-decimal BMI and the
\* same category, and the reported category is the category of the reported
\* BMI under the thresholds 18.5, 25 and 30
C29_BmiEndpointsAgree ==
    ( /\ request.op \in {"quick_bmi_check", "post_calculate_bmi"}
      /\ request.weight > 0 /\ request.height > 0
      /\ request.fault = NoFault )
        => /\ response.status = 200
           /\ response.result.bmi
                  = calculate_bmi(request.weight, request.height)
           /\ response.result.category = categorize_bmi(response.result.bmi)
           /\ response.result
                  = QuickBmi(request.weight, request.height, NoFault).result
           /\ response.result
                  = CalculateBmi(request.height, request.weight, NoFault).result


\* the rank recommendations are ordered by: a smaller rank comes first
PriorityRank(priority) ==
    IF priority = "critical" THEN 0 ELSE IF priority = "required" THEN 1
    ELSE IF priority = "recommended" THEN 2 ELSE 3

\* the answered call of the recommendation engine
ComprehensiveAnswered ==
    /\ request # Idle
    /\ request.op = "generate_comprehensive_recommendations"
    /\ response.outcome = "returned"

\* C27: generate_comprehensive_recommendations returns exactly one health and
\* exactly one life recommendation, a property recommendation if and only if
\* property_value > 0, no recommendation before one of strictly higher
\* priority, and calculate_total_premium counts at most as many critical and
\* required recommendations as there are recommendations.
C27_ComprehensiveRecommendationsShape ==
    ComprehensiveAnswered =>
        LET recs == response.result.recommendations
            summary == response.result.summary
            of(type) == Cardinality({i \in 1..Len(recs) :
                                        recs[i].insurance_type = type})
        IN /\ of("health") = 1
           /\ of("life") = 1
           /\ of("property")
                = (IF request.property_profile.property_value > 0 THEN 1 ELSE 0)
           /\ Len(recs) = of("health") + of("life") + of("property")
           /\ \A i \in 1..Len(recs), j \in 1..Len(recs) :
                  i < j => PriorityRank(recs[i].priority)
                              <= PriorityRank(recs[j].priority)
           /\ summary.critical_recommendations
                + summary.required_recommendations <= Len(recs)

\* C27 witness: three recommendations, the life one of higher priority than
\* the health one, and a call without property answered with two
C27_Witness ==
    /\ ComprehensiveAnswered
    /\ Len(response.result.recommendations) = 3
    /\ response.result.recommendations[1].insurance_type = "life"
    /\ response.result.recommendations[3].insurance_type = "health"
    /\ response.result.summary.critical_recommendations = 1


\* C24 helper: the request is one the handler refuses with a 400 of its own
RefusedByHandler ==
    LET missing(field) == field = <<>> \/ field[1] = 0
    IN /\ request # Idle
       /\ request.op \in {"get_recommendations_by_category", "quick_quote"}
       /\ request.fault = NoFault
       /\ IF request.op = "get_recommendations_by_category"
          THEN Lower(request.bmi_category)
                  \notin {"obese", "overweight", "normal", "underweight"}
          ELSE \/ Lower(request.insurance_type) \notin {"health", "property", "life"}
               \/ Lower(request.insurance_type) = "health" /\ missing(request.age)
               \/ Lower(request.insurance_type) = "property"
                     /\ missing(request.property_value)
               \/ Lower(request.insurance_type) = "life"
                     /\ missing(request.annual_income)

\* C24: GET /recommendations/{bmi_category} with an unknown category and
\* POST /quick-quote with an unknown insurance type or without the field its
\* type requires are answered with HTTP 400: the handler's own 400 reaches the
\* client and is not turned into a 500.
C24_HandlerRefusalStays400 ==
    RefusedByHandler => response.status = 400

\* C24 witness: an unknown category is refused with 400
C24_Witness ==
    /\ RefusedByHandler
    /\ request.op = "get_recommendations_by_category"
    /\ request.bmi_category = "fit"
    /\ response.status = 400
    /\ response.detail = <<"Invalid BMI category">>


\* C25: when current savings already meet the FIRE target and
\* annual_investment > 0, _calculate_fire_timeline returns None whatever the
\* annual return, zero or positive, and generate_financial_advice reports
\* financial_independence_age None.
C25_TargetAlreadyMetIsNone ==
    /\ ( /\ request # Idle
         /\ request.op = "calculate_fire_timeline"
         /\ request.annual_investment > 0 /\ request.annual_return >= 0
         /\ request.target > 0 /\ request.current >= request.target )
       => response = Returned(None)
    /\ ( /\ request # Idle
         /\ request.op = "generate_financial_advice"
         /\ request.user_profile.annual_income > 0
         /\ request.user_profile.current_savings * 100
               >= 1750 * request.user_profile.annual_income
         /\ response.outcome = "returned" )
       => response.result.financial_independence.financial_independence_age
             = None


\* the recommendations of an answered analyze_customer_data, else <<>>
AnsweredProductRecommendations ==
    IF /\ request # Idle
       /\ request.op = "analyze_customer_data"
       /\ response.outcome = "returned"
    THEN response.result.product_recommendations
    ELSE <<>>

\* the rank of a priority: critical above required above recommended above
\* optional
ProductPriorityRank(priority) ==
    IF priority = "critical" THEN 4 ELSE IF priority = "required" THEN 3
    ELSE IF priority = "recommended" THEN 2 ELSE 1

\* C26: the list of _generate_product_recommendations holds at most one
\* recommendation per product type, and no recommendation precedes another
\* of higher priority, or of equal priority and higher confidence_score.
C26_ProductRecommendationsOrdered ==
    LET recs == AnsweredProductRecommendations
    IN \A i \in 1..Len(recs), j \in 1..Len(recs) :
          i < j =>
            /\ recs[i].product_type # recs[j].product_type
            /\ recs[i].product_type
                 \in {"health_insurance", "life_insurance",
                      "property_insurance", "auto_insurance"}
            /\ ProductPriorityRank(recs[i].priority)
                  >= ProductPriorityRank(recs[j].priority)
            /\ recs[i].priority = recs[j].priority
                  => recs[i].confidence_score >= recs[j].confidence_score

\* C26 witness: four recommendations, the sort having moved the life
\* recommendation in front of the health one
C26_Witness ==
    LET recs == AnsweredProductRecommendations
    IN /\ Len(recs) = 4
       /\ recs[1].product_type = "life_insurance"
       /\ \E j \in 2..4 : recs[j].product_type = "health_insurance"


\* the phases of a returned wellness plan, else <<>>
ReturnedPhases ==
    IF /\ request # Idle
       /\ request.op = "get_wellness_plan"
       /\ response.status = 200
    THEN response.result.wellness_plan.phases
    ELSE <<>>

\* C28: every plan returned by GET /wellness-plan/{risk_level} has phases
\* numbered 1, 2, ... whose durations add up to the plan's 12 weeks: three
\* phases of 4 weeks exactly when bmi >= 30 or the risk level is high, two
\* phases of 6 weeks otherwise, for every risk_level string and bmi.
C28_PhasesCoverTwelveWeeks ==
    ( /\ request # Idle
      /\ request.op = "get_wellness_plan"
      /\ response.status = 200 )
    => LET phases == ReturnedPhases
           intensive == request.bmi >= 300 \/ Lower(request.risk_level) = "high"
       IN /\ \A i \in 1..Len(phases) : phases[i].phase = i
          /\ Len(phases) = (IF intensive THEN 3 ELSE 2)
          /\ \A i \in 1..Len(phases) :
                phases[i].duration = (IF intensive THEN 4 ELSE 6)
          /\ Len(phases) * phases[1].duration
                = response.result.wellness_plan.duration
          /\ response.result.wellness_plan.duration = 12

\* C28 witness: a low-risk request with bmi 30 is given three phases
C28_Witness ==
    /\ Len(ReturnedPhases) = 3
    /\ request.risk_level = "low"
    /\ request.bmi = 300
    /\ ReturnedPhases[3].duration = 4


\* C30: for every age GET /financial-advice/{country} accepts (18..100) and
\* every supported country, the advice reports
\* recommendations.years_to_retirement >= 0.
C30_YearsToRetirementNotNegative ==
    ( /\ request # Idle
      /\ request.op = "get_financial_advice"
      /\ request.age >= MinAge /\ request.age <= MaxAge
      /\ request.country \in DOMAIN COUNTRIES
      /\ response.status = 200 )
    => response.result.recommendations.years_to_retirement >= 0

====
